---- MODULE Spec2Model ----
(***************************************************************************)
(* Model of the window-management core of the CodeVerse compositor:        *)
(* the container arena (tree/container.rs), the tree commands and the      *)
(* run-time layout pass (tree/tree.rs), the workspace manager              *)
(* (workspace/manager.rs), the floating manager (floating/manager.rs) and  *)
(* the compositor handlers that drive them (compositor.rs,                 *)
(* input/keyboard.rs, input/pointer.rs, and the layout pass of the         *)
(* backend's render loop).  The stand-alone split layout calculator        *)
(* (layout/split.rs) is modelled beside the tree's own layout pass.        *)
(*                                                                         *)
(* Encoding of integers.  i32 values are themselves.  A u32 value is kept  *)
(* as its 32-bit pattern read as a two's-complement number: the patterns   *)
(* 0 .. 2^31-1 are themselves and the patterns 2^31 .. 2^32-1 appear as    *)
(* p - 2^32, i.e. as negative numbers (TLC's integers are 32 bits wide, so *)
(* 4294967295 itself cannot be written).  Under this encoding the casts    *)
(* `as i32` and `as u32` keep the pattern, and the u32 order, u32          *)
(* saturating subtraction and "is this u32 a wrapped negative" are the     *)
(* operators U32Le, saturating_sub and U32Wrapped below.                   *)
(***************************************************************************)
EXTENDS Integers, Sequences, FiniteSets, TLC

(***************************************************************************)
(* Bounds of the model and program constants                               *)
(***************************************************************************)
\* Nodes (windows and split containers) created after start-up.
MaxNodes == 4
\* Events (protocol requests, shortcuts, render ticks) handled after start-up.
MaxSteps == 5

\* workspace/manager.rs: pub const MAX_WORKSPACES
MAX_WORKSPACES == 10
\* tree.rs layout_container: gap_width, tab_bar_height
gap_width == 4
tab_bar_height == 30
\* floating/manager.rs FloatingManager::new
min_width == 200
min_height == 100
default_width == 800
default_height == 600
title_bar_height == 30
\* floating/manager.rs detect_resize_edge: border_threshold
border_threshold == 10

\* Option<NodeId>::None
NoNode == 0

ContainerTypes ==
    {"Root", "Output", "Workspace", "Split", "Stacked", "Tabbed", "Window", "Floating"}
LayoutModes == {"SplitH", "SplitV", "Stacking", "Tabbed"}
Orientations == {"Horizontal", "Vertical"}
Directions == {"Left", "Right", "Up", "Down"}

(***************************************************************************)
(* 32-bit integers                                                         *)
(***************************************************************************)
\* i32 division truncates toward zero (the divisor is a positive count).
I32Div(a, b) == IF a >= 0 THEN a \div b ELSE -((-a) \div b)

\* u32 pattern of an i32 (`as u32`) and i32 reading of a u32 pattern (`as i32`).
AsU32(i) == i
AsI32(u) == u

\* A u32 whose value is 2^31 or more: only a negative i32 cast to u32 gives one here.
U32Wrapped(u) == u < 0

\* a <= b as u32 values.
U32Le(a, b) ==
    IF U32Wrapped(a) = U32Wrapped(b) THEN a <= b ELSE U32Wrapped(b)

\* u32::saturating_sub(a, b) for a small b >= 0.
saturating_sub(a, b) ==
    IF U32Wrapped(a) THEN a - b
    ELSE IF a < b THEN 0 ELSE a - b

(***************************************************************************)
(* container.rs: Rectangle, Container                                      *)
(***************************************************************************)
Rectangle(x, y, width, height) ==
    [x |-> x, y |-> y, width |-> width, height |-> height]

contains_point(r, x, y) ==
    /\ x >= r.x
    /\ x < r.x + AsI32(r.width)
    /\ y >= r.y
    /\ y < r.y + AsI32(r.height)

orientation(layout) ==
    CASE layout = "SplitH" -> "Horizontal"
      [] layout = "SplitV" -> "Vertical"
      [] OTHER -> "None"

\* Container::new: Option fields are sequences of length 0 (None) or 1 (Some).
NewContainer(container_type) ==
    [ container_type |-> container_type,
      parent |-> NoNode,
      children |-> << >>,
      geometry |-> Rectangle(0, 0, 0, 0),
      layout |-> "SplitH",
      focused |-> FALSE,
      is_floating |-> FALSE,
      floating_original_geometry |-> << >> ]

can_have_children(c) == c.container_type \notin {"Window", "Floating"}

(***************************************************************************)
(* container.rs: WindowTree.  A tree value t is                            *)
(*   [nodes: live id -> Container, focused: id or NoNode, next: next key]. *)
(* SlotMap keys are never handed out twice, so ids count upward.           *)
(***************************************************************************)
Live(t, id) == id \in DOMAIN t.nodes

SeqRemove(s, e) == SelectSeq(s, LAMBDA v : v # e)
SeqContains(s, e) == \E i \in 1..Len(s) : s[i] = e

insert(t, container) ==
    [t EXCEPT !.nodes = (t.next :> container) @@ t.nodes,
              !.next = t.next + 1]

remove(t, id) ==
    [t EXCEPT !.nodes = [n \in (DOMAIN t.nodes) \ {id} |-> t.nodes[n]]]

\* set_focused without the step that clears the previous node's flag.
set_focused_keeping_previous(t, id) ==
    LET refocused ==
            IF id # NoNode /\ Live(t, id)
            THEN [t.nodes EXCEPT ![id].focused = TRUE]
            ELSE t.nodes
    IN [t EXCEPT !.nodes = refocused, !.focused = id]

set_focused(t, id) ==
    LET unfocused ==
            IF t.focused # NoNode /\ Live(t, t.focused)
            THEN [t.nodes EXCEPT ![t.focused].focused = FALSE]
            ELSE t.nodes
        refocused ==
            IF id # NoNode /\ id \in DOMAIN unfocused
            THEN [unfocused EXCEPT ![id].focused = TRUE]
            ELSE unfocused
    IN [t EXCEPT !.nodes = refocused, !.focused = id]

\* Result [ok, t]: Err leaves the tree as it was.
\* add_child without the can_have_children test.
add_child_to_any_kind(t, parent_id, child_id) ==
    IF ~Live(t, parent_id)
    THEN [ok |-> FALSE, t |-> t]
    ELSE LET withParent ==
                 IF Live(t, child_id)
                 THEN [t.nodes EXCEPT ![child_id].parent = parent_id]
                 ELSE t.nodes
             withChild ==
                 [withParent EXCEPT ![parent_id].children = Append(@, child_id)]
         IN [ok |-> TRUE, t |-> [t EXCEPT !.nodes = withChild]]

add_child(t, parent_id, child_id) ==
    IF ~Live(t, parent_id) \/ ~can_have_children(t.nodes[parent_id])
    THEN [ok |-> FALSE, t |-> t]
    ELSE LET withParent ==
                 IF Live(t, child_id)
                 THEN [t.nodes EXCEPT ![child_id].parent = parent_id]
                 ELSE t.nodes
             withChild ==
                 [withParent EXCEPT ![parent_id].children = Append(@, child_id)]
         IN [ok |-> TRUE, t |-> [t EXCEPT !.nodes = withChild]]

\* remove_child without the retain on the parent's children list.
remove_child_keeping_listed(t, parent_id, child_id) ==
    LET orphaned ==
            IF Live(t, child_id)
            THEN [t.nodes EXCEPT ![child_id].parent = NoNode]
            ELSE t.nodes
    IN [t EXCEPT !.nodes = orphaned]

remove_child(t, parent_id, child_id) ==
    LET retained ==
            IF Live(t, parent_id)
            THEN [t.nodes EXCEPT ![parent_id].children = SeqRemove(@, child_id)]
            ELSE t.nodes
        orphaned ==
            IF child_id \in DOMAIN retained
            THEN [retained EXCEPT ![child_id].parent = NoNode]
            ELSE retained
    IN [t EXCEPT !.nodes = orphaned]

children(t, id) == IF Live(t, id) THEN t.nodes[id].children ELSE << >>
parent(t, id) == IF Live(t, id) THEN t.nodes[id].parent ELSE NoNode

(***************************************************************************)
(* tree.rs: Direction, WindowTreeExt                                       *)
(***************************************************************************)
direction_orientation(direction) ==
    IF direction \in {"Left", "Right"} THEN "Horizontal" ELSE "Vertical"

\* is_negative that takes Up for a forward direction.
is_negative_only_left(direction) == direction = "Left"

is_negative(direction) == direction \in {"Left", "Up"}

\* Index of the first occurrence of e in s, 0 when absent (Iterator::position).
position(s, e) ==
    IF SeqContains(s, e)
    THEN CHOOSE i \in 1..Len(s) : s[i] = e /\ \A j \in 1..(i - 1) : s[j] # e
    ELSE 0

\* A recursion that never returns (a cycle of parent or first-child links):
\* the call overflows the stack and the process ends.
Diverges == 0 - 1

\* Depth no finite chain of distinct live nodes exceeds.
Fuel(t) == Cardinality(DOMAIN t.nodes) + 1

\* Result [ok, t, id]; the Window node stays in the arena when add_child fails.
\* insert_window that puts every new window into the workspace.
insert_window_into_workspace(t, workspace_id) ==
    LET window_id == t.next
        t1 == insert(t, NewContainer("Window"))
        added == add_child(t1, workspace_id, window_id)
    IN IF added.ok
       THEN [ok |-> TRUE, t |-> set_focused(added.t, window_id), id |-> window_id]
       ELSE [ok |-> FALSE, t |-> added.t, id |-> NoNode]

insert_window(t, workspace_id) ==
    LET window_id == t.next
        t1 == insert(t, NewContainer("Window"))
        focused_id == t1.focused
        insert_target ==
            IF focused_id # NoNode
            THEN IF Live(t1, focused_id)
                 THEN IF t1.nodes[focused_id].container_type = "Window"
                      THEN IF t1.nodes[focused_id].parent # NoNode
                           THEN t1.nodes[focused_id].parent
                           ELSE workspace_id
                      ELSE focused_id
                 ELSE workspace_id
            ELSE workspace_id
        added == add_child(t1, insert_target, window_id)
    IN IF added.ok
       THEN [ok |-> TRUE, t |-> set_focused(added.t, window_id), id |-> window_id]
       ELSE [ok |-> FALSE, t |-> added.t, id |-> NoNode]

\* Result [ok, t].
\* remove_window that always hands the focus to the parent.
remove_window_focusing_parent(t, window_id) ==
    LET parent_id == parent(t, window_id)
        t1 == remove_child(t, parent_id, window_id)
        t2 == IF t1.focused = window_id THEN set_focused(t1, parent_id) ELSE t1
    IN IF parent_id = NoNode
       THEN [ok |-> FALSE, t |-> t]
       ELSE [ok |-> TRUE, t |-> remove(t2, window_id)]

remove_window(t, window_id) ==
    LET parent_id == parent(t, window_id)
        t1 == remove_child(t, parent_id, window_id)
        siblings == children(t1, parent_id)
        t2 == IF t1.focused = window_id
              THEN IF siblings # << >>
                   THEN set_focused(t1, siblings[1])
                   ELSE set_focused(t1, parent_id)
              ELSE t1
    IN IF parent_id = NoNode
       THEN [ok |-> FALSE, t |-> t]
       ELSE [ok |-> TRUE, t |-> remove(t2, window_id)]

\* Some(id) is the id; None is NoNode; a chain of first children that never
\* ends is Diverges.
RECURSIVE first_focusable_descendant_rec(_, _, _)
first_focusable_descendant_rec(t, node_id, fuel) ==
    IF fuel = 0 THEN Diverges
    ELSE IF ~Live(t, node_id) THEN NoNode
    ELSE IF t.nodes[node_id].container_type = "Window" THEN node_id
    ELSE IF t.nodes[node_id].children # << >>
         THEN first_focusable_descendant_rec(t, t.nodes[node_id].children[1], fuel - 1)
         ELSE NoNode

first_focusable_descendant(t, node_id) ==
    first_focusable_descendant_rec(t, node_id, Fuel(t))

RECURSIVE navigate_focus_recursive_rec(_, _, _, _)
navigate_focus_recursive_rec(t, current, direction, fuel) ==
    LET parent_id == parent(t, current)
        par == t.nodes[parent_id]
        siblings == par.children
        current_index == position(siblings, current)
        target_index ==
            IF is_negative(direction) THEN current_index - 1 ELSE current_index + 1
    IN IF fuel = 0 THEN Diverges
       ELSE IF parent_id = NoNode \/ ~Live(t, parent_id) THEN NoNode
       ELSE IF orientation(par.layout) = direction_orientation(direction)
            THEN IF current_index = 0 THEN NoNode
                 ELSE IF target_index = 0 THEN NoNode
                 ELSE IF target_index <= Len(siblings) THEN siblings[target_index]
                 ELSE navigate_focus_recursive_rec(t, parent_id, direction, fuel - 1)
            ELSE navigate_focus_recursive_rec(t, parent_id, direction, fuel - 1)

navigate_focus_recursive(t, current, direction) ==
    navigate_focus_recursive_rec(t, current, direction, Fuel(t))

\* Result [t, ret]: ret is the returned id, NoNode for None, Diverges when the
\* call never returns.
navigate_focus(t, direction) ==
    LET current == t.focused
        parent_id == parent(t, current)
        par == t.nodes[parent_id]
        siblings == par.children
        current_index == position(siblings, current)
        target_index ==
            IF is_negative(direction) THEN current_index - 1 ELSE current_index + 1
        target_id == siblings[target_index]
        descendant == first_focusable_descendant(t, target_id)
        focus_target == IF descendant = NoNode THEN target_id ELSE descendant
    IN IF current = NoNode THEN [t |-> t, ret |-> NoNode]
       ELSE IF parent_id = NoNode \/ ~Live(t, parent_id) THEN [t |-> t, ret |-> NoNode]
       ELSE IF orientation(par.layout) = "None" THEN [t |-> t, ret |-> NoNode]
       ELSE IF orientation(par.layout) # direction_orientation(direction)
            THEN [t |-> t, ret |-> navigate_focus_recursive(t, current, direction)]
       ELSE IF current_index = 0 THEN [t |-> t, ret |-> NoNode]
       ELSE IF target_index = 0 \/ target_index > Len(siblings)
            THEN [t |-> t, ret |-> NoNode]
       ELSE IF descendant = Diverges THEN [t |-> t, ret |-> Diverges]
       ELSE [t |-> set_focused(t, focus_target), ret |-> focus_target]

\* Result [ok, t, id].
split_focused(t, orient) ==
    LET focused_id == t.focused
        parent_id == parent(t, focused_id)
        split_id == t.next
        split == [NewContainer("Split") EXCEPT
                     !.layout = IF orient = "Horizontal" THEN "SplitH" ELSE "SplitV"]
        t1 == insert(t, split)
        t2 == remove_child(t1, parent_id, focused_id)
        a1 == add_child(t2, parent_id, split_id)
        a2 == add_child(a1.t, split_id, focused_id)
    IN IF focused_id = NoNode \/ parent_id = NoNode
       THEN [ok |-> FALSE, t |-> t, id |-> NoNode]
       ELSE IF ~a1.ok THEN [ok |-> FALSE, t |-> a1.t, id |-> NoNode]
       ELSE IF ~a2.ok THEN [ok |-> FALSE, t |-> a2.t, id |-> NoNode]
       ELSE [ok |-> TRUE, t |-> a2.t, id |-> split_id]

\* Result [ok, t].
\* change_layout that writes the layout of the focused node itself.
change_layout_of_focused(t, layout) ==
    LET focused_id == t.focused
        parent_id == parent(t, focused_id)
    IN IF focused_id = NoNode \/ parent_id = NoNode THEN [ok |-> FALSE, t |-> t]
       ELSE IF ~Live(t, parent_id) THEN [ok |-> FALSE, t |-> t]
       ELSE IF ~can_have_children(t.nodes[parent_id]) THEN [ok |-> FALSE, t |-> t]
       ELSE [ok |-> TRUE,
             t |-> [t EXCEPT !.nodes = [@ EXCEPT ![focused_id].layout = layout]]]

change_layout(t, layout) ==
    LET focused_id == t.focused
        parent_id == parent(t, focused_id)
    IN IF focused_id = NoNode \/ parent_id = NoNode THEN [ok |-> FALSE, t |-> t]
       ELSE IF ~Live(t, parent_id) THEN [ok |-> FALSE, t |-> t]
       ELSE IF ~can_have_children(t.nodes[parent_id]) THEN [ok |-> FALSE, t |-> t]
       ELSE [ok |-> TRUE,
             t |-> [t EXCEPT !.nodes = [@ EXCEPT ![parent_id].layout = layout]]]

RECURSIVE find_workspace_rec(_, _, _)
find_workspace_rec(t, node_id, fuel) ==
    IF fuel = 0 THEN Diverges
    ELSE IF ~Live(t, node_id) THEN NoNode
    ELSE IF t.nodes[node_id].container_type = "Workspace" THEN node_id
    ELSE IF t.nodes[node_id].parent = NoNode THEN NoNode
    ELSE find_workspace_rec(t, t.nodes[node_id].parent, fuel - 1)

find_workspace(t, node_id) == find_workspace_rec(t, node_id, Fuel(t))

(***************************************************************************)
(* tree.rs: the layout pass (calculate_layout, layout_container)           *)
(***************************************************************************)
\* The layout of the container's parent in place of its own.
container_layout_of_parent(nodes, container_id) ==
    IF nodes[container_id].parent \in DOMAIN nodes
    THEN nodes[nodes[container_id].parent].layout
    ELSE nodes[container_id].layout

\* (layout, children) of the container being laid out.
container_layout(nodes, container_id) == nodes[container_id].layout

\* child_width / child_height: the i32 share of one child of num_children.
split_child_size(total, num_children) ==
    I32Div(AsI32(total) - (num_children - 1) * gap_width, num_children)

\* The advance of x / y after one child.
split_advance(pos, child_size) == pos + child_size + gap_width

\* content_geometry with a wrapping in place of the saturating subtraction.
tabbed_content_geometry_wrapping(geometry) ==
    Rectangle(geometry.x,
              geometry.y + tab_bar_height,
              geometry.width,
              AsU32(geometry.height - tab_bar_height))

\* content_geometry of a Tabbed container.
tabbed_content_geometry(geometry) ==
    Rectangle(geometry.x,
              geometry.y + tab_bar_height,
              geometry.width,
              saturating_sub(geometry.height, AsU32(tab_bar_height)))

\* The rectangle one loop iteration gives the child, x / y being at pos.
child_geometry_at(layout, geometry, num_children, pos) ==
    CASE layout = "SplitH" ->
             Rectangle(pos, geometry.y,
                       AsU32(split_child_size(geometry.width, num_children)),
                       geometry.height)
      [] layout = "SplitV" ->
             Rectangle(geometry.x, pos, geometry.width,
                       AsU32(split_child_size(geometry.height, num_children)))
      [] layout = "Stacking" -> geometry
      [] layout = "Tabbed" -> tabbed_content_geometry(geometry)

\* r is [nodes, overflow]; overflow: the recursion met a cycle of children
\* links and never returns.
RECURSIVE layout_container_rec(_, _, _, _)
RECURSIVE layout_children(_, _, _, _, _, _, _)

layout_children(r, kids, i, layout, geometry, pos, fuel) ==
    IF r.overflow \/ i > Len(kids) THEN r
    ELSE LET child_id == kids[i]
             child_geometry == child_geometry_at(layout, geometry, Len(kids), pos)
             assigned ==
                 IF child_id \in DOMAIN r.nodes
                 THEN [r.nodes EXCEPT ![child_id].geometry = child_geometry]
                 ELSE r.nodes
             below == layout_container_rec(assigned, child_id, child_geometry, fuel - 1)
             size == IF layout = "SplitH"
                     THEN split_child_size(geometry.width, Len(kids))
                     ELSE split_child_size(geometry.height, Len(kids))
             next_pos == IF layout \in {"SplitH", "SplitV"}
                         THEN split_advance(pos, size)
                         ELSE pos
         IN layout_children(below, kids, i + 1, layout, geometry, next_pos, fuel)

layout_container_rec(nodes, container_id, geometry, fuel) ==
    IF fuel = 0 THEN [nodes |-> nodes, overflow |-> TRUE]
    ELSE IF container_id \notin DOMAIN nodes THEN [nodes |-> nodes, overflow |-> FALSE]
    ELSE IF nodes[container_id].children = << >> THEN [nodes |-> nodes, overflow |-> FALSE]
    ELSE LET layout == container_layout(nodes, container_id)
             start == IF layout = "SplitV" THEN geometry.y ELSE geometry.x
         IN layout_children([nodes |-> nodes, overflow |-> FALSE],
                            nodes[container_id].children, 1, layout, geometry,
                            start, fuel)

layout_container(nodes, container_id, geometry) ==
    layout_container_rec(nodes, container_id, geometry, Cardinality(DOMAIN nodes) + 1)

(***************************************************************************)
(* layout/split.rs: SplitLayout                                            *)
(***************************************************************************)
SplitLayout_gap_width == 4

RECURSIVE SplitLayout_layout_children(_, _, _, _, _, _, _, _)
RECURSIVE SplitLayout_layout_container_rec(_, _, _, _)

\* The loop of layout_horizontal (axis "Horizontal") and of
\* layout_vertical ("Vertical") from child i on; pos is x or y, share the
\* child_width or child_height of every child but the last.
SplitLayout_layout_children(r, kids, i, axis, geometry, pos, share, fuel) ==
    IF r.overflow \/ i > Len(kids) THEN r
    ELSE LET child_id == kids[i]
             size == IF i = Len(kids)
                     THEN IF axis = "Horizontal"
                          THEN (geometry.x + AsI32(geometry.width)) - pos
                          ELSE (geometry.y + AsI32(geometry.height)) - pos
                     ELSE share
             child_geometry ==
                 IF axis = "Horizontal"
                 THEN Rectangle(pos, geometry.y, AsU32(size), geometry.height)
                 ELSE Rectangle(geometry.x, pos, geometry.width, AsU32(size))
             assigned ==
                 IF child_id \in DOMAIN r.nodes
                 THEN [r.nodes EXCEPT ![child_id].geometry = child_geometry]
                 ELSE r.nodes
             below == SplitLayout_layout_container_rec(assigned, child_id,
                                                       child_geometry, fuel - 1)
         IN SplitLayout_layout_children(below, kids, i + 1, axis,
                                        geometry,
                                        pos + size + SplitLayout_gap_width,
                                        share, fuel)

\* Results [nodes, overflow].
SplitLayout_layout_horizontal(nodes, parent_id, geometry, fuel) ==
    LET child_ids == IF parent_id \in DOMAIN nodes
                     THEN nodes[parent_id].children ELSE << >>
        num_children == Len(child_ids)
        total_gap == (num_children - 1) * SplitLayout_gap_width
        available_width == AsI32(geometry.width) - total_gap
    IN IF child_ids = << >> \/ available_width <= 0
       THEN [nodes |-> nodes, overflow |-> FALSE]
       ELSE SplitLayout_layout_children(
                [nodes |-> nodes, overflow |-> FALSE], child_ids, 1,
                "Horizontal", geometry, geometry.x,
                I32Div(available_width, num_children), fuel)

SplitLayout_layout_vertical(nodes, parent_id, geometry, fuel) ==
    LET child_ids == IF parent_id \in DOMAIN nodes
                     THEN nodes[parent_id].children ELSE << >>
        num_children == Len(child_ids)
        total_gap == (num_children - 1) * SplitLayout_gap_width
        available_height == AsI32(geometry.height) - total_gap
    IN IF child_ids = << >> \/ available_height <= 0
       THEN [nodes |-> nodes, overflow |-> FALSE]
       ELSE SplitLayout_layout_children(
                [nodes |-> nodes, overflow |-> FALSE], child_ids, 1,
                "Vertical", geometry, geometry.y,
                I32Div(available_height, num_children), fuel)

SplitLayout_layout_container_rec(nodes, container_id, geometry, fuel) ==
    IF fuel = 0 THEN [nodes |-> nodes, overflow |-> TRUE]
    ELSE IF container_id \notin DOMAIN nodes
    THEN [nodes |-> nodes, overflow |-> FALSE]
    ELSE IF nodes[container_id].layout = "SplitH"
    THEN SplitLayout_layout_horizontal(nodes, container_id, geometry, fuel)
    ELSE IF nodes[container_id].layout = "SplitV"
    THEN SplitLayout_layout_vertical(nodes, container_id, geometry, fuel)
    ELSE [nodes |-> nodes, overflow |-> FALSE]

SplitLayout_layout_container(nodes, container_id, geometry) ==
    SplitLayout_layout_container_rec(nodes, container_id, geometry,
                                     Cardinality(DOMAIN nodes) + 1)

\* Result [t, overflow].
calculate_layout(t, workspace_id, screen_geometry) ==
    LET withScreen ==
            IF Live(t, workspace_id)
            THEN [t.nodes EXCEPT ![workspace_id].geometry = screen_geometry]
            ELSE t.nodes
        laid == layout_container(withScreen, workspace_id, screen_geometry)
    IN [t |-> [t EXCEPT !.nodes = laid.nodes], overflow |-> laid.overflow]

(***************************************************************************)
(* workspace/manager.rs: WorkspaceManager.  A manager value m is           *)
(*   [workspaces: 1..MAX_WORKSPACES -> id, active_workspace: 0-based       *)
(*    index, output_id].                                                   *)
(***************************************************************************)
active_workspace(m) == m.workspaces[m.active_workspace + 1]

\* Result [ok, m].
\* switch_to_workspace without the upper bound check.
switch_to_workspace_unbounded(m, workspace_num) ==
    IF workspace_num < 1
    THEN [ok |-> FALSE, m |-> m]
    ELSE [ok |-> TRUE, m |-> [m EXCEPT !.active_workspace = workspace_num - 1]]

switch_to_workspace(m, workspace_num) ==
    IF workspace_num < 1 \/ workspace_num > MAX_WORKSPACES
    THEN [ok |-> FALSE, m |-> m]
    ELSE [ok |-> TRUE, m |-> [m EXCEPT !.active_workspace = workspace_num - 1]]

\* Result [ok, t].
\* move_window_to_workspace without the removal from the current parent.
move_window_to_workspace_keeping_old(m, t, window_id, target_workspace_num) ==
    LET target_workspace_id == m.workspaces[target_workspace_num]
        current_parent == parent(t, window_id)
        added == add_child(t, target_workspace_id, window_id)
    IN IF target_workspace_num < 1 \/ target_workspace_num > MAX_WORKSPACES
       THEN [ok |-> FALSE, t |-> t]
       ELSE IF current_parent = NoNode THEN [ok |-> FALSE, t |-> t]
       ELSE added

\* move_window_to_workspace that detaches the window before it checks the
\* workspace number.
move_window_to_workspace_detaching_first(m, t, window_id, target_workspace_num) ==
    LET current_parent == parent(t, window_id)
        t1 == remove_child(t, current_parent, window_id)
    IN IF target_workspace_num < 1 \/ target_workspace_num > MAX_WORKSPACES
       THEN [ok |-> FALSE, t |-> t1]
       ELSE IF current_parent = NoNode THEN [ok |-> FALSE, t |-> t]
       ELSE add_child(t1, m.workspaces[target_workspace_num], window_id)

move_window_to_workspace(m, t, window_id, target_workspace_num) ==
    LET target_workspace_id == m.workspaces[target_workspace_num]
        current_parent == parent(t, window_id)
        t1 == remove_child(t, current_parent, window_id)
        added == add_child(t1, target_workspace_id, window_id)
    IN IF target_workspace_num < 1 \/ target_workspace_num > MAX_WORKSPACES
       THEN [ok |-> FALSE, t |-> t]
       ELSE IF current_parent = NoNode THEN [ok |-> FALSE, t |-> t]
       ELSE added

\* Result [t, overflow].
layout_active_workspace(m, t, screen_geometry) ==
    calculate_layout(t, active_workspace(m), screen_geometry)

\* The Window nodes under container_id, in the order the recursion pushes
\* them; <<Diverges>> when the recursion never returns.
RECURSIVE collect_windows_recursive_rec(_, _, _)
RECURSIVE collect_windows_children(_, _, _, _)
collect_windows_recursive_rec(t, container_id, fuel) ==
    IF fuel = 0 THEN <<Diverges>>
    ELSE IF ~Live(t, container_id) THEN << >>
    ELSE IF t.nodes[container_id].container_type = "Window" THEN <<container_id>>
    ELSE collect_windows_children(t, t.nodes[container_id].children, 1, fuel - 1)

\* The for loop over container.children, from the i-th child on.
collect_windows_children(t, kids, i, fuel) ==
    IF i > Len(kids) THEN << >>
    ELSE LET windows == collect_windows_recursive_rec(t, kids[i], fuel)
         IN IF windows = <<Diverges>> THEN windows
            ELSE LET rest == collect_windows_children(t, kids, i + 1, fuel)
                 IN IF rest = <<Diverges>> THEN rest ELSE windows \o rest

collect_windows_recursive(t, container_id) ==
    collect_windows_recursive_rec(t, container_id, Fuel(t))

visible_windows(m, t) ==
    IF active_workspace(m) = NoNode THEN << >>
    ELSE collect_windows_recursive(t, active_workspace(m))

(***************************************************************************)
(* floating/manager.rs: FloatingManager.  A manager value f is             *)
(*   [stack: sequence of ids, bottom to top, operation: MouseOperation].   *)
(***************************************************************************)
ResizeEdges ==
    {"Top", "Bottom", "Left", "Right", "TopLeft", "TopRight", "BottomLeft", "BottomRight"}

OperationNone ==
    [kind |-> "None", window |-> NoNode, start_x |-> 0, start_y |-> 0,
     original_geometry |-> Rectangle(0, 0, 0, 0), edge |-> "None"]

\* Results [t, f].
\* make_floating that places the window at the screen's corner.
make_floating_at_corner(f, t, window_id, screen_geometry) ==
    LET container == t.nodes[window_id]
        floated == [container EXCEPT
                       !.floating_original_geometry = <<container.geometry>>,
                       !.is_floating = TRUE,
                       !.geometry = Rectangle(screen_geometry.x, screen_geometry.y,
                                              default_width, default_height)]
    IN [t |-> [t EXCEPT !.nodes = [@ EXCEPT ![window_id] = floated]],
        f |-> [f EXCEPT !.stack = IF SeqContains(@, window_id)
                                  THEN @ ELSE Append(@, window_id)]]

make_floating(f, t, window_id, screen_geometry) ==
    LET container == t.nodes[window_id]
        x == screen_geometry.x
             + I32Div(AsI32(screen_geometry.width) - AsI32(default_width), 2)
        y == screen_geometry.y
             + I32Div(AsI32(screen_geometry.height) - AsI32(default_height), 2)
        floated == [container EXCEPT
                       !.floating_original_geometry = <<container.geometry>>,
                       !.is_floating = TRUE,
                       !.geometry = Rectangle(x, y, default_width, default_height)]
    IN [t |-> [t EXCEPT !.nodes = [@ EXCEPT ![window_id] = floated]],
        f |-> [f EXCEPT !.stack = IF SeqContains(@, window_id)
                                  THEN @ ELSE Append(@, window_id)]]

\* make_tiled that leaves the geometry where the window floated.
make_tiled_in_place(f, t, window_id) ==
    LET container == t.nodes[window_id]
        tiled == [container EXCEPT
                     !.is_floating = FALSE,
                     !.floating_original_geometry = << >>]
    IN [t |-> [t EXCEPT !.nodes = [@ EXCEPT ![window_id] = tiled]],
        f |-> [f EXCEPT !.stack = SeqRemove(@, window_id)]]

make_tiled(f, t, window_id) ==
    LET container == t.nodes[window_id]
        tiled == [container EXCEPT
                     !.is_floating = FALSE,
                     !.geometry = IF container.floating_original_geometry # << >>
                                  THEN container.floating_original_geometry[1]
                                  ELSE @,
                     !.floating_original_geometry = << >>]
    IN [t |-> [t EXCEPT !.nodes = [@ EXCEPT ![window_id] = tiled]],
        f |-> [f EXCEPT !.stack = SeqRemove(@, window_id)]]

\* Result [ok, t, f].
toggle_floating(f, t, window_id, screen_geometry) ==
    IF ~Live(t, window_id) THEN [ok |-> FALSE, t |-> t, f |-> f]
    ELSE LET r == IF t.nodes[window_id].is_floating
                  THEN make_tiled(f, t, window_id)
                  ELSE make_floating(f, t, window_id, screen_geometry)
         IN [ok |-> TRUE, t |-> r.t, f |-> r.f]

I32Max(a, b) == IF a >= b THEN a ELSE b

\* raise_window that pushes the id without taking it out first.
raise_window_pushing_again(f, window_id) ==
    [f EXCEPT !.stack = Append(@, window_id)]

raise_window(f, window_id) ==
    [f EXCEPT !.stack = Append(SeqRemove(@, window_id), window_id)]

\* Results [ok, f].
\* start_move that leaves the z-order list as it is.
start_move_without_raise(f, t, window_id, cursor_x, cursor_y) ==
    IF ~Live(t, window_id) THEN [ok |-> FALSE, f |-> f]
    ELSE IF ~t.nodes[window_id].is_floating THEN [ok |-> FALSE, f |-> f]
    ELSE [ok |-> TRUE,
          f |-> [f EXCEPT !.operation =
                    [kind |-> "Moving", window |-> window_id,
                     start_x |-> cursor_x, start_y |-> cursor_y,
                     original_geometry |-> t.nodes[window_id].geometry,
                     edge |-> "None"]]]

start_move(f, t, window_id, cursor_x, cursor_y) ==
    IF ~Live(t, window_id) THEN [ok |-> FALSE, f |-> f]
    ELSE IF ~t.nodes[window_id].is_floating THEN [ok |-> FALSE, f |-> f]
    ELSE [ok |-> TRUE,
          f |-> raise_window(
                    [f EXCEPT !.operation =
                        [kind |-> "Moving", window |-> window_id,
                         start_x |-> cursor_x, start_y |-> cursor_y,
                         original_geometry |-> t.nodes[window_id].geometry,
                         edge |-> "None"]],
                    window_id)]

start_resize(f, t, window_id, cursor_x, cursor_y, edge) ==
    IF ~Live(t, window_id) THEN [ok |-> FALSE, f |-> f]
    ELSE IF ~t.nodes[window_id].is_floating THEN [ok |-> FALSE, f |-> f]
    ELSE [ok |-> TRUE,
          f |-> raise_window(
                    [f EXCEPT !.operation =
                        [kind |-> "Resizing", window |-> window_id,
                         start_x |-> cursor_x, start_y |-> cursor_y,
                         original_geometry |-> t.nodes[window_id].geometry,
                         edge |-> edge]],
                    window_id)]

\* The match on the edge of a Resizing operation: the new geometry.
\* resized_geometry whose BottomRight arm grows the width only.
resized_geometry_width_only(original_geometry, edge, dx, dy) ==
    LET grown_width ==
            AsU32(I32Max(AsI32(original_geometry.width) + dx, AsI32(min_width)))
        shrunk_width ==
            AsU32(I32Max(AsI32(original_geometry.width) - dx, AsI32(min_width)))
        grown_height ==
            AsU32(I32Max(AsI32(original_geometry.height) + dy, AsI32(min_height)))
        shrunk_height ==
            AsU32(I32Max(AsI32(original_geometry.height) - dy, AsI32(min_height)))
        shifted_x == original_geometry.x
                     + (AsI32(original_geometry.width) - AsI32(shrunk_width))
        shifted_y == original_geometry.y
                     + (AsI32(original_geometry.height) - AsI32(shrunk_height))
    IN CASE edge \in {"Right", "BottomRight"} ->
              [original_geometry EXCEPT !.width = grown_width]
         [] edge = "Bottom" ->
              [original_geometry EXCEPT !.height = grown_height]
         [] edge = "Left" ->
              [original_geometry EXCEPT !.x = shifted_x, !.width = shrunk_width]
         [] edge = "Top" ->
              [original_geometry EXCEPT !.y = shifted_y, !.height = shrunk_height]
         [] edge = "TopLeft" ->
              [original_geometry EXCEPT !.x = shifted_x, !.y = shifted_y,
                                        !.width = shrunk_width,
                                        !.height = shrunk_height]
         [] edge = "TopRight" ->
              [original_geometry EXCEPT !.y = shifted_y, !.width = grown_width,
                                        !.height = shrunk_height]
         [] edge = "BottomLeft" ->
              [original_geometry EXCEPT !.x = shifted_x, !.width = shrunk_width,
                                        !.height = grown_height]

\* resized_geometry that keeps the origin's x and y for every edge.
resized_geometry_fixed_corner(original_geometry, edge, dx, dy) ==
    LET grown_width ==
            AsU32(I32Max(AsI32(original_geometry.width) + dx, AsI32(min_width)))
        shrunk_width ==
            AsU32(I32Max(AsI32(original_geometry.width) - dx, AsI32(min_width)))
        grown_height ==
            AsU32(I32Max(AsI32(original_geometry.height) + dy, AsI32(min_height)))
        shrunk_height ==
            AsU32(I32Max(AsI32(original_geometry.height) - dy, AsI32(min_height)))
    IN [original_geometry EXCEPT
           !.width = IF edge \in {"Left", "TopLeft", "BottomLeft"} THEN shrunk_width
                     ELSE IF edge \in {"Right", "TopRight", "BottomRight"}
                     THEN grown_width ELSE @,
           !.height = IF edge \in {"Top", "TopLeft", "TopRight"} THEN shrunk_height
                      ELSE IF edge \in {"Bottom", "BottomLeft", "BottomRight"}
                      THEN grown_height ELSE @]

resized_geometry(original_geometry, edge, dx, dy) ==
    LET grown_width ==
            AsU32(I32Max(AsI32(original_geometry.width) + dx, AsI32(min_width)))
        shrunk_width ==
            AsU32(I32Max(AsI32(original_geometry.width) - dx, AsI32(min_width)))
        grown_height ==
            AsU32(I32Max(AsI32(original_geometry.height) + dy, AsI32(min_height)))
        shrunk_height ==
            AsU32(I32Max(AsI32(original_geometry.height) - dy, AsI32(min_height)))
        shifted_x == original_geometry.x
                     + (AsI32(original_geometry.width) - AsI32(shrunk_width))
        shifted_y == original_geometry.y
                     + (AsI32(original_geometry.height) - AsI32(shrunk_height))
    IN CASE edge = "Right" ->
              [original_geometry EXCEPT !.width = grown_width]
         [] edge = "Bottom" ->
              [original_geometry EXCEPT !.height = grown_height]
         [] edge = "Left" ->
              [original_geometry EXCEPT !.x = shifted_x, !.width = shrunk_width]
         [] edge = "Top" ->
              [original_geometry EXCEPT !.y = shifted_y, !.height = shrunk_height]
         [] edge = "TopLeft" ->
              [original_geometry EXCEPT !.x = shifted_x, !.y = shifted_y,
                                        !.width = shrunk_width,
                                        !.height = shrunk_height]
         [] edge = "TopRight" ->
              [original_geometry EXCEPT !.y = shifted_y, !.width = grown_width,
                                        !.height = shrunk_height]
         [] edge = "BottomLeft" ->
              [original_geometry EXCEPT !.x = shifted_x, !.width = shrunk_width,
                                        !.height = grown_height]
         [] edge = "BottomRight" ->
              [original_geometry EXCEPT !.width = grown_width,
                                        !.height = grown_height]

\* Result: the tree.
\* update_operation whose Moving arm adds the displacement to where the
\* window is now.
update_operation_from_current(f, t, cursor_x, cursor_y) ==
    LET op == f.operation
        dx == cursor_x - op.start_x
        dy == cursor_y - op.start_y
    IN IF op.kind = "Moving"
       THEN IF Live(t, op.window)
            THEN [t EXCEPT !.nodes[op.window].geometry =
                     [@ EXCEPT !.x = @ + dx, !.y = @ + dy]]
            ELSE t
       ELSE IF op.kind = "Resizing"
       THEN IF Live(t, op.window)
            THEN [t EXCEPT !.nodes[op.window].geometry =
                     resized_geometry(op.original_geometry, op.edge, dx, dy)]
            ELSE t
       ELSE t

update_operation(f, t, cursor_x, cursor_y) ==
    LET op == f.operation
        dx == cursor_x - op.start_x
        dy == cursor_y - op.start_y
    IN IF op.kind = "Moving"
       THEN IF Live(t, op.window)
            THEN [t EXCEPT !.nodes[op.window].geometry =
                     [@ EXCEPT !.x = op.original_geometry.x + dx,
                               !.y = op.original_geometry.y + dy]]
            ELSE t
       ELSE IF op.kind = "Resizing"
       THEN IF Live(t, op.window)
            THEN [t EXCEPT !.nodes[op.window].geometry =
                     resized_geometry(op.original_geometry, op.edge, dx, dy)]
            ELSE t
       ELSE t

\* finish_operation that ends resizes only and leaves a move in progress.
finish_operation_resizes_only(f) ==
    IF f.operation.kind = "Moving" THEN f
    ELSE [f EXCEPT !.operation = OperationNone]

finish_operation(f) == [f EXCEPT !.operation = OperationNone]

\* The topmost floating window at (x, y), NoNode when there is none.
RECURSIVE find_window_at_rec(_, _, _, _, _)
find_window_at_rec(f, t, x, y, i) ==
    IF i = 0 THEN NoNode
    ELSE LET window_id == f.stack[i]
         IN IF /\ Live(t, window_id)
               /\ t.nodes[window_id].is_floating
               /\ contains_point(t.nodes[window_id].geometry, x, y)
            THEN window_id
            ELSE find_window_at_rec(f, t, x, y, i - 1)

find_window_at(f, t, x, y) == find_window_at_rec(f, t, x, y, Len(f.stack))

is_in_title_bar(t, window_id, x, y) ==
    IF ~Live(t, window_id) THEN FALSE
    ELSE IF ~t.nodes[window_id].is_floating THEN FALSE
    ELSE LET geom == t.nodes[window_id].geometry
         IN /\ x >= geom.x
            /\ x < geom.x + AsI32(geom.width)
            /\ y >= geom.y
            /\ y < geom.y + AsI32(title_bar_height)

Abs(i) == IF i < 0 THEN 0 - i ELSE i

\* detect_resize_edge: "None" stands for Option::None.
detect_resize_edge(t, window_id, x, y) ==
    IF ~Live(t, window_id) THEN "None"
    ELSE IF ~t.nodes[window_id].is_floating THEN "None"
    ELSE LET geom == t.nodes[window_id].geometry
             left == Abs(x - geom.x) < border_threshold
             right == Abs(x - (geom.x + AsI32(geom.width))) < border_threshold
             top == Abs(y - geom.y) < border_threshold
             bottom == Abs(y - (geom.y + AsI32(geom.height))) < border_threshold
         IN IF top /\ left THEN "TopLeft"
            ELSE IF top /\ right THEN "TopRight"
            ELSE IF bottom /\ left THEN "BottomLeft"
            ELSE IF bottom /\ right THEN "BottomRight"
            ELSE IF top THEN "Top"
            ELSE IF bottom THEN "Bottom"
            ELSE IF left THEN "Left"
            ELSE IF right THEN "Right"
            ELSE "None"

(***************************************************************************)
(* compositor.rs: the compositor's state and its construction              *)
(***************************************************************************)
VARIABLES
    window_tree,        \* CodeVerseCompositor::window_tree
    workspace_manager,  \* CodeVerseCompositor::workspace_manager
    floating_manager,   \* CodeVerseCompositor::floating_manager
    aborted,            \* a handler recursed without end: the process is gone
    steps               \* events handled so far

vars == <<window_tree, workspace_manager, floating_manager, aborted, steps>>

WindowTree_new == [nodes |-> << >>, focused |-> NoNode, next |-> 1]

FloatingManager_new == [stack |-> << >>, operation |-> OperationNone]

\* The loop of WorkspaceManager::new; r is [t, workspaces].
RECURSIVE create_workspaces(_, _, _)
create_workspaces(r, output_id, i) ==
    IF i > MAX_WORKSPACES THEN r
    ELSE LET workspace_id == r.t.next
             workspace == [NewContainer("Workspace") EXCEPT !.layout = "SplitH"]
             added == add_child(insert(r.t, workspace), output_id, workspace_id)
         IN create_workspaces(
                [t |-> added.t, workspaces |-> Append(r.workspaces, workspace_id)],
                output_id, i + 1)

\* Result [t, m].
WorkspaceManager_new(t, output_id) ==
    LET r == create_workspaces([t |-> t, workspaces |-> << >>], output_id, 1)
    IN [t |-> r.t,
        m |-> [workspaces |-> r.workspaces, active_workspace |-> 0,
               output_id |-> output_id]]

\* Result [t, m]: the Output node, then the manager's ten workspaces.
init_workspace_manager(t) ==
    WorkspaceManager_new(insert(t, NewContainer("Output")), t.next)

Init ==
    LET r == init_workspace_manager(WindowTree_new)
    IN /\ window_tree = r.t
       /\ workspace_manager = r.m
       /\ floating_manager = FloatingManager_new
       /\ aborted = FALSE
       /\ steps = 0

\* The first key handed out after start-up.
FirstFree == MAX_WORKSPACES + 2

CanAllocate == window_tree.next < FirstFree + MaxNodes

\* Every handler runs on a live process, within the bound on events.
Handle ==
    /\ ~aborted
    /\ steps < MaxSteps
    /\ steps' = steps + 1

(***************************************************************************)
(* Inputs                                                                  *)
(***************************************************************************)
\* keyboard.rs: the screen rectangle the shortcut handlers lay out with.
KeyScreen == Rectangle(0, 0, 1920, 1080)

\* Output sizes the render loop lays out with: a full screen and a window
\* shrunk to a few pixels.
Screens == {Rectangle(0, 0, 1920, 1080), Rectangle(0, 0, 2, 20)}

\* keysym_to_workspace_num gives 1..10; the keys pressed here.
WorkspaceKeys == {1, 2}

\* pointer.rs: the buttons told apart, and the cursor positions of the events:
\* on the title bar of a centred floating window away from its borders, near
\* its bottom right corner, near its top left corner, outside of it, and
\* inside the few pixels of the shrunk output.
Buttons == {"BTN_LEFT", "BTN_RIGHT"}
CursorPoints == {<<600, 250>>, <<1355, 835>>, <<565, 245>>, <<100, 100>>, <<1, 10>>}

WindowIds ==
    {id \in DOMAIN window_tree.nodes :
        window_tree.nodes[id].container_type = "Window"}

(***************************************************************************)
(* compositor.rs: protocol handlers                                        *)
(***************************************************************************)
\* handle_new_toplevel
NewToplevel ==
    /\ Handle
    /\ CanAllocate
    /\ window_tree' =
           insert_window(window_tree, active_workspace(workspace_manager)).t
    /\ UNCHANGED <<workspace_manager, floating_manager, aborted>>

\* handle_toplevel_closed, for the toplevel of window w
ToplevelClosed(w) ==
    /\ Handle
    /\ window_tree' = remove_window(window_tree, w).t
    /\ UNCHANGED <<workspace_manager, floating_manager, aborted>>

(***************************************************************************)
(* input/keyboard.rs: handle_keyboard_shortcut, one action per shortcut    *)
(***************************************************************************)
\* Super+h/j/k/l
KeyNavigate(direction) ==
    LET r == navigate_focus(window_tree, direction)
    IN /\ Handle
       /\ IF r.ret = Diverges
          THEN aborted' = TRUE /\ UNCHANGED window_tree
          ELSE window_tree' = r.t /\ UNCHANGED aborted
       /\ UNCHANGED <<workspace_manager, floating_manager>>

\* Super+b / Super+v
KeySplit(orient) ==
    /\ Handle
    /\ CanAllocate
    /\ window_tree' = split_focused(window_tree, orient).t
    /\ UNCHANGED <<workspace_manager, floating_manager, aborted>>

\* The layout pass a handler ends with.
Relayout(m, t, screen_geometry) ==
    LET laid == layout_active_workspace(m, t, screen_geometry)
    IN IF laid.overflow
       THEN aborted' = TRUE /\ window_tree' = t
       ELSE aborted' = FALSE /\ window_tree' = laid.t

\* Super+1..0
KeySwitchWorkspace(workspace_num) ==
    LET m == switch_to_workspace(workspace_manager, workspace_num).m
    IN /\ Handle
       /\ workspace_manager' = m
       /\ Relayout(m, window_tree, KeyScreen)
       /\ UNCHANGED floating_manager

\* Super+Shift+1..0
KeyMoveToWorkspace(workspace_num) ==
    /\ Handle
    /\ window_tree.focused # NoNode
    /\ window_tree' =
           move_window_to_workspace(workspace_manager, window_tree,
                                    window_tree.focused, workspace_num).t
    /\ UNCHANGED <<workspace_manager, floating_manager, aborted>>

\* Super+e/w/s/t
KeyChangeLayout(layout) ==
    LET r == change_layout(window_tree, layout)
    IN /\ Handle
       /\ IF r.ok
          THEN Relayout(workspace_manager, r.t, KeyScreen)
          ELSE UNCHANGED <<window_tree, aborted>>
       /\ UNCHANGED <<workspace_manager, floating_manager>>

\* Super+Shift+Space
KeyToggleFloating ==
    LET r == toggle_floating(floating_manager, window_tree, window_tree.focused,
                             KeyScreen)
    IN /\ Handle
       /\ window_tree.focused # NoNode
       /\ IF r.ok
          THEN floating_manager' = r.f
               /\ Relayout(workspace_manager, r.t, KeyScreen)
          ELSE UNCHANGED <<window_tree, floating_manager, aborted>>
       /\ UNCHANGED workspace_manager

(***************************************************************************)
(* input/pointer.rs: handle_pointer_button, handle_pointer_motion          *)
(***************************************************************************)
\* A button pressed at (x, y), with or without the logo key held.
PointerButtonPressed(button, logo_pressed, x, y) ==
    LET window_id == find_window_at(floating_manager, window_tree, x, y)
        t == set_focused(window_tree, window_id)
        raised == raise_window(floating_manager, window_id)
        detected == detect_resize_edge(t, window_id, x, y)
        edge == IF detected = "None" THEN "BottomRight" ELSE detected
    IN /\ Handle
       /\ IF window_id = NoNode
          THEN UNCHANGED <<window_tree, floating_manager>>
          ELSE /\ window_tree' = t
               /\ floating_manager' =
                      IF logo_pressed /\ button = "BTN_LEFT"
                      THEN start_move(raised, t, window_id, x, y).f
                      ELSE IF logo_pressed /\ button = "BTN_RIGHT"
                      THEN start_resize(raised, t, window_id, x, y, edge).f
                      ELSE IF is_in_title_bar(t, window_id, x, y)
                      THEN start_move(raised, t, window_id, x, y).f
                      ELSE raised
       /\ UNCHANGED <<workspace_manager, aborted>>

\* A button released.
PointerButtonReleased ==
    /\ Handle
    /\ floating_manager' =
           IF floating_manager.operation.kind # "None"
           THEN finish_operation(floating_manager)
           ELSE floating_manager
    /\ UNCHANGED <<window_tree, workspace_manager, aborted>>

\* The pointer moved to (x, y).
PointerMotion(x, y) ==
    /\ Handle
    /\ window_tree' =
           IF floating_manager.operation.kind # "None"
           THEN update_operation(floating_manager, window_tree, x, y)
           ELSE window_tree
    /\ UNCHANGED <<workspace_manager, floating_manager, aborted>>

(***************************************************************************)
(* backend: the render loop's layout pass                                  *)
(***************************************************************************)
LayoutPass(screen_geometry) ==
    /\ Handle
    /\ Relayout(workspace_manager, window_tree, screen_geometry)
    /\ UNCHANGED <<workspace_manager, floating_manager>>

Next ==
    \/ NewToplevel
    \/ \E w \in WindowIds : ToplevelClosed(w)
    \/ \E direction \in Directions : KeyNavigate(direction)
    \/ \E orient \in Orientations : KeySplit(orient)
    \/ \E workspace_num \in WorkspaceKeys : KeySwitchWorkspace(workspace_num)
    \/ \E workspace_num \in WorkspaceKeys : KeyMoveToWorkspace(workspace_num)
    \/ \E layout \in LayoutModes : KeyChangeLayout(layout)
    \/ KeyToggleFloating
    \/ \E button \in Buttons, logo_pressed \in BOOLEAN, p \in CursorPoints :
           PointerButtonPressed(button, logo_pressed, p[1], p[2])
    \/ PointerButtonReleased
    \/ \E p \in CursorPoints : PointerMotion(p[1], p[2])
    \/ \E screen_geometry \in Screens : LayoutPass(screen_geometry)

Spec == Init /\ [][Next]_vars

\* The compositor after a new toplevel, Super+b and Super+Shift+1: workspace 1
\* holds the emptied split container, then the window, which has the focus.
EmptiedSplitTree ==
    LET r == init_workspace_manager(WindowTree_new)
        t1 == insert_window(r.t, active_workspace(r.m)).t
        t2 == split_focused(t1, "Horizontal").t
    IN move_window_to_workspace(r.m, t2, t2.focused, 1).t

InitEmptiedSplit ==
    /\ window_tree = EmptiedSplitTree
    /\ workspace_manager = init_workspace_manager(WindowTree_new).m
    /\ floating_manager = FloatingManager_new
    /\ aborted = FALSE
    /\ steps = 0

\* The same handlers, observed from that state on.
SpecEmptiedSplit == InitEmptiedSplit /\ [][Next]_vars

(***************************************************************************)
(* Vocabulary of the properties                                            *)
(***************************************************************************)
Nodes == window_tree.nodes

Occurrences(s, e) == Cardinality({i \in 1..Len(s) : s[i] = e})

\* Keys handed out so far whose node is no longer in the arena.
RemovedIds == (1..(window_tree.next - 1)) \ DOMAIN Nodes

\* The ids reachable from id through children links, id included.
RECURSIVE SubtreeRec(_, _, _)
SubtreeRec(nodes, id, fuel) ==
    IF fuel = 0 \/ id \notin DOMAIN nodes THEN {}
    ELSE {id} \cup UNION {SubtreeRec(nodes, nodes[id].children[i], fuel - 1) :
                             i \in 1..Len(nodes[id].children)}

Subtree(nodes, id) == SubtreeRec(nodes, id, Cardinality(DOMAIN nodes) + 1)

\* A step of the render loop's layout pass that returned.
LayoutStep == (\E screen_geometry \in Screens : LayoutPass(screen_geometry)) /\ ~aborted'

(***************************************************************************)
(* C1                                                                      *)
(***************************************************************************)
\* C1: parent links and children lists agree in every reachable state: a live
\* node c has parent p exactly when c is listed in p's children, no node is
\* listed twice in a children list, and no children list or parent link names
\* a removed node.
C1_ParentChildConsistent ==
    /\ \A p \in DOMAIN Nodes :
           \A i \in 1..Len(Nodes[p].children) : Nodes[p].children[i] \in DOMAIN Nodes
    /\ \A c \in DOMAIN Nodes : Nodes[c].parent \in DOMAIN Nodes \cup {NoNode}
    /\ \A c \in DOMAIN Nodes :
           Nodes[c].parent # NoNode =>
               SeqContains(Nodes[Nodes[c].parent].children, c)
    /\ \A p \in DOMAIN Nodes : \A i \in 1..Len(Nodes[p].children) :
           /\ Nodes[Nodes[p].children[i]].parent = p
           /\ \A j \in 1..Len(Nodes[p].children) :
                  Nodes[p].children[i] = Nodes[p].children[j] => i = j

\* C1 witness: a window has been closed, a split container wraps a window,
\* and a window has been moved to workspace 2.
C1_Witness ==
    /\ RemovedIds # {}
    /\ \E s \in DOMAIN Nodes :
           /\ Nodes[s].container_type = "Split"
           /\ Nodes[s].children # << >>
           /\ Nodes[s].parent # NoNode
    /\ \E w \in DOMAIN Nodes :
           /\ Nodes[w].container_type = "Window"
           /\ Nodes[w].parent = workspace_manager.workspaces[2]

(***************************************************************************)
(* C2                                                                      *)
(***************************************************************************)
\* C2: at most one node has its focused flag set, that node is the live node
\* named by WindowTree::focused(), and the focused id never names a removed
\* node.
C2_SingleFocus ==
    /\ \A n \in DOMAIN Nodes : Nodes[n].focused <=> (window_tree.focused = n)
    /\ window_tree.focused # NoNode => window_tree.focused \in DOMAIN Nodes
    /\ Cardinality({n \in DOMAIN Nodes : Nodes[n].focused}) <= 1

\* C2 witness: the focus sits on a live node after the focused window was
\* closed, next to a window that held the focus earlier and lost it.
C2_Witness ==
    /\ RemovedIds # {}
    /\ window_tree.focused \in DOMAIN Nodes
    /\ Nodes[window_tree.focused].focused
    /\ \E w \in DOMAIN Nodes :
           /\ Nodes[w].container_type = "Window"
           /\ w # window_tree.focused
           /\ ~Nodes[w].focused

(***************************************************************************)
(* C3                                                                      *)
(***************************************************************************)
\* C3: every node whose is_floating flag is set is a Window without children.
C3_FloatingIsWindowLeaf ==
    \A n \in DOMAIN Nodes :
        Nodes[n].is_floating =>
            Nodes[n].container_type = "Window" /\ Nodes[n].children = << >>

(***************************************************************************)
(* C4                                                                      *)
(***************************************************************************)
\* C4: the Output node has exactly MAX_WORKSPACES children, they are the
\* workspaces the WorkspaceManager records, and each has the Output as parent.
C4_OutputOwnsWorkspaces ==
    LET output_id == workspace_manager.output_id
        recorded == {workspace_manager.workspaces[i] : i \in 1..MAX_WORKSPACES}
    IN /\ Len(Nodes[output_id].children) = MAX_WORKSPACES
       /\ {Nodes[output_id].children[i] : i \in 1..Len(Nodes[output_id].children)}
              = recorded
       /\ \A w \in recorded :
              /\ w \in DOMAIN Nodes
              /\ Nodes[w].container_type = "Workspace"
              /\ Nodes[w].parent = output_id

(***************************************************************************)
(* C5                                                                      *)
(***************************************************************************)
\* C5: a layout pass leaves the geometry of every floating node as it was.
C5_LayoutKeepsFloatingGeometry ==
    [][LayoutStep =>
          \A n \in DOMAIN Nodes :
              Nodes[n].is_floating => Nodes'[n].geometry = Nodes[n].geometry]_vars

(***************************************************************************)
(* Vocabulary of the layout properties                                     *)
(***************************************************************************)
\* The containers a pass over the active workspace lays out: the nodes of its
\* subtree that have children.
LaidOut ==
    {c \in Subtree(Nodes, active_workspace(workspace_manager)) :
         Nodes[c].children # << >>}

NumKids(c) == Len(Nodes[c].children)
Kid(c, i) == Nodes[Nodes[c].children[i]].geometry

\* Along: the split axis of a rectangle as (position, extent); Across: the
\* other axis.
AlongPos(layout, r) == IF layout = "SplitH" THEN r.x ELSE r.y
AlongSize(layout, r) == IF layout = "SplitH" THEN r.width ELSE r.height
AcrossPos(layout, r) == IF layout = "SplitH" THEN r.y ELSE r.x
AcrossSize(layout, r) == IF layout = "SplitH" THEN r.height ELSE r.width

Splits == {c \in LaidOut : Nodes[c].layout \in {"SplitH", "SplitV"}}

\* total - (n-1)*gap > 0 for the unsigned total; an extent of 2^31 or more
\* (negative bit pattern) exceeds every sum of gaps the model reaches.
UsablePositive(total, n) ==
    U32Wrapped(total) \/ total - (n - 1) * gap_width > 0

PositiveSplits ==
    {c \in Splits : UsablePositive(AlongSize(Nodes[c].layout, Nodes[c].geometry),
                                   NumKids(c))}

CrampedSplits == Splits \ PositiveSplits

RECURSIVE SumAlong(_, _, _)
SumAlong(layout, c, i) ==
    IF i = 0 THEN 0
    ELSE SumAlong(layout, c, i - 1) + AlongSize(layout, Kid(c, i))

\* b starts at or after the far edge of a; an extent of 2^31 or more reaches
\* past every position.
Clears(pos_a, size_a, pos_b) == ~U32Wrapped(size_a) /\ pos_a + size_a <= pos_b

\* Two rectangles share no pixel.
Disjoint(a, b) ==
    \/ a.width = 0 \/ a.height = 0 \/ b.width = 0 \/ b.height = 0
    \/ Clears(a.x, a.width, b.x) \/ Clears(b.x, b.width, a.x)
    \/ Clears(a.y, a.height, b.y) \/ Clears(b.y, b.height, a.y)

(***************************************************************************)
(* C6                                                                      *)
(***************************************************************************)
C6Post ==
    \A c \in PositiveSplits :
        LET layout == Nodes[c].layout
            n == NumKids(c)
            total == AlongSize(layout, Nodes[c].geometry)
            usable == total - (n - 1) * gap_width
            share == usable \div n
        IN /\ SumAlong(layout, c, n) + (n - 1) * gap_width = total
           /\ ~U32Wrapped(total) =>
                  /\ \A i \in 1..(n - 1) : AlongSize(layout, Kid(c, i)) = share
                  /\ AlongSize(layout, Kid(c, n)) = usable - (n - 1) * share

\* C6: after a layout pass, the children of a SplitH (SplitV) container with
\* positive usable width (height) have widths (heights) that sum, with the
\* gaps, to the container's width (height): every child but the last has
\* floor(usable / N) and the last has the remainder.
C6_SplitSharesFillExtent == [][LayoutStep => C6Post']_vars

(***************************************************************************)
(* C7                                                                      *)
(***************************************************************************)
C7Post ==
    \A c \in PositiveSplits :
        LET layout == Nodes[c].layout
            rect == Nodes[c].geometry
            n == NumKids(c)
        IN /\ AlongPos(layout, Kid(c, 1)) = AlongPos(layout, rect)
           /\ \A i \in 1..n :
                  /\ AcrossPos(layout, Kid(c, i)) = AcrossPos(layout, rect)
                  /\ AcrossSize(layout, Kid(c, i)) = AcrossSize(layout, rect)
           /\ \A i \in 1..(n - 1) :
                  /\ ~U32Wrapped(AlongSize(layout, Kid(c, i)))
                  /\ AlongPos(layout, Kid(c, i + 1)) =
                         AlongPos(layout, Kid(c, i))
                             + AlongSize(layout, Kid(c, i)) + gap_width
           /\ \A i \in 1..n : \A j \in (i + 1)..n : Disjoint(Kid(c, i), Kid(c, j))

\* C7: after a layout pass, the children of a SplitH (SplitV) container with
\* positive usable width (height) are pairwise disjoint, follow one another in
\* list order with exactly the gap between the far edge of one and the near
\* edge of the next, start at the container's x (y), and share its y and
\* height (x and width).
C7_SplitChildrenInOrder == [][LayoutStep => C7Post']_vars

(***************************************************************************)
(* C8                                                                      *)
(***************************************************************************)
C8Sane(c) ==
    LET layout == Nodes[c].layout
        n == NumKids(c)
    IN /\ \A i \in 1..n : ~U32Wrapped(AlongSize(layout, Kid(c, i)))
       /\ \A i \in 1..n : \A j \in (i + 1)..n : Disjoint(Kid(c, i), Kid(c, j))

C8Bounded(c) ==
    LET layout == Nodes[c].layout
    IN \A i \in 1..NumKids(c) :
           U32Le(AlongSize(layout, Kid(c, i)), AlongSize(layout, Nodes[c].geometry))

C8Untouched(c) == \A i \in 1..NumKids(c) : Kid(c, i)' = Kid(c, i)

\* C8: after a layout pass, the children of a split container whose usable
\* width (height) is zero or negative either keep the geometry they had or
\* have a width (height) no larger than the container's; none has a width
\* (height) that is a negative number wrapped to 32 unsigned bits, and they
\* are pairwise disjoint.
C8_CrampedSplitNeverWraps ==
    [][LayoutStep =>
          \A c \in DOMAIN Nodes :
              (c \in CrampedSplits)' =>
                  /\ C8Sane(c)'
                  /\ C8Untouched(c) \/ C8Bounded(c)']_vars

(***************************************************************************)
(* C9                                                                      *)
(***************************************************************************)
\* The area below the tab strip of rect.
TabArea(rect) ==
    [x |-> rect.x, y |-> rect.y + 30, width |-> rect.width,
     height |-> IF ~U32Wrapped(rect.height) /\ rect.height < 30
                THEN 0 ELSE rect.height - 30]

\* The children of c are arranged by the layout mode recorded on c.
ArrangedByOwnMode(c) ==
    LET layout == Nodes[c].layout
        rect == Nodes[c].geometry
        n == NumKids(c)
    IN CASE layout \in {"SplitH", "SplitV"} ->
                /\ AlongPos(layout, Kid(c, 1)) = AlongPos(layout, rect)
                /\ \A i \in 1..n :
                       /\ AcrossPos(layout, Kid(c, i)) = AcrossPos(layout, rect)
                       /\ AcrossSize(layout, Kid(c, i)) = AcrossSize(layout, rect)
                /\ \A i \in 1..(n - 1) :
                       AlongPos(layout, Kid(c, i + 1)) =
                           AlongPos(layout, Kid(c, i))
                               + AlongSize(layout, Kid(c, i)) + gap_width
         [] layout = "Tabbed" -> \A i \in 1..n : Kid(c, i) = TabArea(rect)
         [] layout = "Stacking" -> \A i \in 1..n : Kid(c, i) = rect

NestedLaidOut == LaidOut \ {active_workspace(workspace_manager)}

C10Post ==
    \A c \in LaidOut :
        /\ Nodes[c].layout = "Stacking" =>
               \A i \in 1..NumKids(c) : Kid(c, i) = Nodes[c].geometry
        /\ Nodes[c].layout = "Tabbed" =>
               \A i \in 1..NumKids(c) : Kid(c, i) = TabArea(Nodes[c].geometry)

\* C10: after a layout pass every child of a Stacking container has the
\* container's rectangle and every child of a Tabbed container has
\* (x, y + 30, width, height - 30), the height being 0 when the container is
\* lower than 30; a pass over a workspace without children changes no other
\* node, whatever the workspace's mode.
C10_StackingAndTabbedRects ==
    [][LayoutStep =>
          /\ C10Post'
          /\ Nodes[active_workspace(workspace_manager)].children = << >> =>
                 \A n \in DOMAIN Nodes \ {active_workspace(workspace_manager)} :
                     Nodes'[n] = Nodes[n]]_vars

\* C10 witness: a Tabbed container lower than the tab strip has two children,
\* both on the zero-height area below the strip.
C10_Witness ==
    \E c \in LaidOut :
        /\ Nodes[c].layout = "Tabbed"
        /\ NumKids(c) >= 2
        /\ Nodes[c].geometry.width > 0
        /\ Nodes[c].geometry.height < 30
        /\ \A i \in 1..NumKids(c) :
               Kid(c, i) = [x |-> Nodes[c].geometry.x,
                            y |-> Nodes[c].geometry.y + 30,
                            width |-> Nodes[c].geometry.width,
                            height |-> 0]

(***************************************************************************)
(* Vocabulary of the navigation properties                                 *)
(***************************************************************************)
\* A Super+h/j/k/l step whose navigate_focus call returned.
NavStep(direction) == KeyNavigate(direction) /\ ~aborted'

Focused == window_tree.focused

\* The focused node has a live parent.
HasParent == Focused \in DOMAIN Nodes /\ Nodes[Focused].parent \in DOMAIN Nodes

FocusedParent == Nodes[Focused].parent

\* The index of the focused node among its siblings, and the index the
\* direction points at.
FocusedIndex == position(Nodes[FocusedParent].children, Focused)

TargetIndex(direction) ==
    IF direction \in {"Left", "Up"} THEN FocusedIndex - 1 ELSE FocusedIndex + 1

Axis(direction) == IF direction \in {"Left", "Right"} THEN "SplitH" ELSE "SplitV"

\* The parent of the focused node is a split along the direction's axis.
ParentMatches(direction) ==
    HasParent /\ Nodes[FocusedParent].layout = Axis(direction) /\ FocusedIndex # 0

(***************************************************************************)
(* C11                                                                     *)
(***************************************************************************)
\* C11: a navigate_focus(direction) that returns, called with the focused
\* node under a split along the direction's axis, moves the focus to the
\* sibling before (Left/Up) or after (Right/Down) the focused node (into its
\* subtree when the sibling is a container) and returns the newly focused
\* node; at the first (Left/Up) or last (Right/Down) sibling it returns
\* nothing and the tree and the focus are as before.
C11_NavigateAmongSiblings ==
    [][\A direction \in Directions :
          NavStep(direction) /\ ParentMatches(direction) =>
              LET siblings == Nodes[FocusedParent].children
                  target_index == TargetIndex(direction)
                  ret == navigate_focus(window_tree, direction).ret
              IN IF target_index \in 1..Len(siblings)
                 THEN /\ ret # NoNode
                      /\ window_tree'.focused = ret
                      /\ ret \in Subtree(Nodes, siblings[target_index])
                      /\ Nodes[siblings[target_index]].container_type = "Window"
                             => ret = siblings[target_index]
                      /\ Nodes'[ret].focused
                 ELSE /\ ret = NoNode
                      /\ window_tree' = window_tree]_vars

\* C11 witness: no window was ever closed and the focus sits on the first of
\* two windows of a SplitH parent, the second being the newer one: the focus
\* came here by a navigation to the left.
C11_Witness ==
    /\ RemovedIds = {}
    /\ HasParent
    /\ Nodes[FocusedParent].layout = "SplitH"
    /\ Len(Nodes[FocusedParent].children) >= 2
    /\ Nodes[FocusedParent].children[1] = Focused
    /\ Nodes[Focused].container_type = "Window"
    /\ Nodes[Nodes[FocusedParent].children[2]].container_type = "Window"
    /\ Nodes[FocusedParent].children[2] > Focused

(***************************************************************************)
(* C12                                                                     *)
(***************************************************************************)
\* The sibling the upward search arrives at from node: the neighbour, in the
\* direction, of the nearest ancestor-or-self that sits under a split along
\* the direction's axis and has such a neighbour; NoNode when there is none.
RECURSIVE AncestorNeighbour(_, _, _)
AncestorNeighbour(node, direction, fuel) ==
    IF fuel = 0 \/ node \notin DOMAIN Nodes THEN NoNode
    ELSE LET p == Nodes[node].parent
         IN IF p \notin DOMAIN Nodes THEN NoNode
            ELSE LET siblings == Nodes[p].children
                     index == position(siblings, node)
                     target_index == IF direction \in {"Left", "Up"}
                                     THEN index - 1 ELSE index + 1
                 IN IF /\ Nodes[p].layout = Axis(direction)
                       /\ index # 0
                       /\ target_index \in 1..Len(siblings)
                    THEN siblings[target_index]
                    ELSE AncestorNeighbour(p, direction, fuel - 1)

\* The parent of the focused node is not a split along the direction's axis.
ParentDiffers(direction) ==
    HasParent /\ Nodes[FocusedParent].layout # Axis(direction)

\* C12: a navigate_focus(direction) that returns, called with the focused
\* node under a parent that is not a split along the direction's axis (a
\* split of the other orientation, Stacking or Tabbed), moves the focus to
\* the neighbour the upward search finds and returns the node that is focused
\* afterwards; when the search finds none it returns nothing and the tree and
\* the focus are as before.
C12_NavigateThroughAncestors ==
    [][\A direction \in Directions :
          NavStep(direction) /\ ParentDiffers(direction) =>
              LET found == AncestorNeighbour(Focused, direction,
                                             Cardinality(DOMAIN Nodes) + 1)
                  ret == navigate_focus(window_tree, direction).ret
              IN IF found # NoNode
                 THEN /\ ret # NoNode
                      /\ window_tree'.focused = ret
                      /\ ret \in Subtree(Nodes, found)
                 ELSE /\ ret = NoNode
                      /\ window_tree' = window_tree]_vars

(***************************************************************************)
(* C13                                                                     *)
(***************************************************************************)
\* The first Window of the subtree of node in depth-first order, children in
\* list order; NoNode when the subtree has no Window.
RECURSIVE FirstWindow(_, _)
RECURSIVE FirstWindowAmong(_, _, _)
FirstWindow(node, fuel) ==
    IF fuel = 0 \/ node \notin DOMAIN Nodes THEN NoNode
    ELSE IF Nodes[node].container_type = "Window" THEN node
    ELSE FirstWindowAmong(Nodes[node].children, 1, fuel - 1)

FirstWindowAmong(kids, i, fuel) ==
    IF i > Len(kids) THEN NoNode
    ELSE LET found == FirstWindow(kids[i], fuel)
         IN IF found # NoNode THEN found
            ELSE FirstWindowAmong(kids, i + 1, fuel)

\* C13: when a navigate_focus(direction) that returns moves the focus to a
\* sibling that is a container, the node focused afterwards is the first
\* Window of that container's subtree in depth-first, first-child order; it
\* is a node that is not a Window only when the subtree has no Window.
C13_FocusResolvesToFirstWindow ==
    [][\A direction \in Directions :
          NavStep(direction) /\ ParentMatches(direction) =>
              LET siblings == Nodes[FocusedParent].children
                  target_index == TargetIndex(direction)
                  first == FirstWindow(siblings[target_index],
                                       Cardinality(DOMAIN Nodes) + 1)
              IN (/\ target_index \in 1..Len(siblings)
                  /\ Nodes[siblings[target_index]].container_type # "Window")
                 => IF first # NoNode
                    THEN window_tree'.focused = first
                    ELSE window_tree'.focused = siblings[target_index]]_vars

(***************************************************************************)
(* C14                                                                     *)
(***************************************************************************)
\* C14: split_focused(orientation) on a focused node F with parent P creates
\* one Split container S of the layout the orientation names, puts S where F
\* was in P's children (the other children keep their places), makes F the
\* only child of S with S as its parent, and leaves the focus on F.
C14_SplitTakesPlaceOfFocused ==
    [][\A orient \in Orientations :
          KeySplit(orient) /\ HasParent =>
              LET F == Focused
                  P == FocusedParent
                  S == window_tree.next
              IN /\ DOMAIN Nodes' = DOMAIN Nodes \cup {S}
                 /\ Nodes'[S].container_type = "Split"
                 /\ Nodes'[S].layout =
                        (IF orient = "Horizontal" THEN "SplitH" ELSE "SplitV")
                 /\ Nodes'[P].children =
                        [Nodes[P].children EXCEPT ![FocusedIndex] = S]
                 /\ Nodes'[S].parent = P
                 /\ Nodes'[S].children = <<F>>
                 /\ Nodes'[F].parent = S
                 /\ window_tree'.focused = F]_vars

C16_SwitchChangesActiveIndexOnly ==
    /\ workspace_manager.active_workspace \in 0..(MAX_WORKSPACES - 1)
    /\ \A n \in 0..(MAX_WORKSPACES + 1) :
           LET r == switch_to_workspace(workspace_manager, n)
           IN IF n \in 1..MAX_WORKSPACES
              THEN /\ r.ok
                   /\ r.m = [workspace_manager EXCEPT !.active_workspace = n - 1]
              ELSE /\ ~r.ok
                   /\ r.m = workspace_manager

\* C16 witness: workspace 2 is the active one and holds a window, workspace 1
\* still holds one.
C16_Witness ==
    /\ workspace_manager.active_workspace = 1
    /\ Nodes[workspace_manager.workspaces[2]].children # << >>
    /\ Nodes[workspace_manager.workspaces[1]].children # << >>

(***************************************************************************)
(* C17                                                                     *)
(***************************************************************************)
\* C17: after a successful move_window_to_workspace(w, n) the parent of w is
\* the node of workspace n, w is listed exactly once in that node's children
\* and in no other children list, and the focus and the active workspace are
\* as before, wherever w was nested and also when it was in workspace n
\* already.
C17_MoveAttachesToWorkspaceRoot ==
    [][\A n \in WorkspaceKeys :
          (/\ KeyMoveToWorkspace(n)
           /\ move_window_to_workspace(workspace_manager, window_tree,
                                       Focused, n).ok) =>
              LET w == Focused
                  target == workspace_manager.workspaces[n]
              IN /\ Nodes'[w].parent = target
                 /\ Occurrences(Nodes'[target].children, w) = 1
                 /\ \A p \in DOMAIN Nodes' \ {target} :
                        ~SeqContains(Nodes'[p].children, w)
                 /\ window_tree'.focused = w
                 /\ Nodes'[w].focused
                 /\ workspace_manager' = workspace_manager]_vars

\* C17 witness: no window was ever closed, a split container stands empty in
\* workspace 1 and the focused window is a direct child of workspace 2: it
\* was moved there out of the split.
C17_Witness ==
    /\ RemovedIds = {}
    /\ Focused \in DOMAIN Nodes
    /\ Nodes[Focused].container_type = "Window"
    /\ Nodes[Focused].parent = workspace_manager.workspaces[2]
    /\ SeqContains(Nodes[workspace_manager.workspaces[2]].children, Focused)
    /\ \E e \in DOMAIN Nodes :
           /\ Nodes[e].container_type = "Split"
           /\ Nodes[e].children = << >>
           /\ Nodes[e].parent = workspace_manager.workspaces[1]

(***************************************************************************)
(* C18                                                                     *)
(***************************************************************************)
\* The Window nodes met walking down from id, children in list order.
RECURSIVE WindowsBelow(_, _)
RECURSIVE WindowsBelowKids(_, _, _)
WindowsBelow(id, fuel) ==
    IF fuel = 0 \/ id \notin DOMAIN Nodes THEN << >>
    ELSE IF Nodes[id].container_type = "Window" THEN <<id>>
    ELSE WindowsBelowKids(Nodes[id].children, 1, fuel - 1)

WindowsBelowKids(kids, i, fuel) ==
    IF i > Len(kids) THEN << >>
    ELSE WindowsBelow(kids[i], fuel) \o WindowsBelowKids(kids, i + 1, fuel)

\* The nearest Workspace node on the parent chain of id, NoNode when none.
RECURSIVE EnclosingWorkspace(_, _)
EnclosingWorkspace(id, fuel) ==
    IF fuel = 0 \/ id \notin DOMAIN Nodes THEN NoNode
    ELSE IF Nodes[id].container_type = "Workspace" THEN id
    ELSE EnclosingWorkspace(Nodes[id].parent, fuel - 1)

\* What visible_windows must return for the manager m.
VisibleAsClaimed(m) ==
    LET root == m.workspaces[m.active_workspace + 1]
        result == visible_windows(m, window_tree)
        depth == Cardinality(DOMAIN Nodes) + 1
    IN /\ result = WindowsBelow(root, depth)
       /\ {result[i] : i \in 1..Len(result)} =
              {w \in Subtree(Nodes, root) : Nodes[w].container_type = "Window"}
       /\ \A i, j \in 1..Len(result) : result[i] = result[j] => i = j
       /\ \A i \in 1..Len(result) : EnclosingWorkspace(result[i], depth) = root

\* C18: visible_windows returns exactly the Window nodes reachable from the
\* active workspace's node through children links, each once, in depth-first
\* children order, floating or not; no window whose enclosing workspace is
\* another one is in the result; and after switch_to_workspace(n) the same
\* holds of workspace n.
C18_VisibleWindowsOfActiveWorkspace ==
    /\ VisibleAsClaimed(workspace_manager)
    /\ \A n \in 1..MAX_WORKSPACES :
           VisibleAsClaimed(switch_to_workspace(workspace_manager, n).m)

(***************************************************************************)
(* C19                                                                     *)
(***************************************************************************)
\* What toggle_floating returns for the focused node, before the shortcut
\* handler lays the workspace out again.
Toggled == toggle_floating(floating_manager, window_tree, Focused, KeyScreen)

\* Super+Shift+Space on a live node that is tiled / that is floating.
FloatStep ==
    KeyToggleFloating /\ Focused \in DOMAIN Nodes /\ ~Nodes[Focused].is_floating

TileStep ==
    KeyToggleFloating /\ Focused \in DOMAIN Nodes /\ Nodes[Focused].is_floating

\* C19: the toggle to floating records the geometry G the window has at that
\* moment; no event while the window floats (grabs, pointer motion, layout
\* passes, any shortcut) alters the record; and the next toggle_floating sets
\* the geometry to exactly the recorded G, clears is_floating and clears the
\* record.
C19_ToggleRoundTripRestoresGeometry ==
    [][/\ FloatStep =>
              Nodes'[Focused].floating_original_geometry = <<Nodes[Focused].geometry>>
       /\ \A w \in DOMAIN Nodes \cap DOMAIN Nodes' :
              Nodes[w].is_floating /\ Nodes'[w].is_floating =>
                  /\ Len(Nodes[w].floating_original_geometry) = 1
                  /\ Nodes'[w].floating_original_geometry =
                         Nodes[w].floating_original_geometry
       /\ TileStep =>
              /\ Len(Nodes[Focused].floating_original_geometry) = 1
              /\ Toggled.ok
              /\ Toggled.t.nodes[Focused].geometry =
                     Nodes[Focused].floating_original_geometry[1]
              /\ ~Toggled.t.nodes[Focused].is_floating
              /\ Toggled.t.nodes[Focused].floating_original_geometry = << >>
              /\ ~Nodes'[Focused].is_floating
              /\ Nodes'[Focused].floating_original_geometry = << >>]_vars

\* C19 witness: a grab that started on the centred floating window is still
\* recorded, and that window is tiled again with its record cleared: it was
\* toggled to floating, grabbed, and toggled back.
C19_Witness ==
    LET op == floating_manager.operation
    IN /\ op.kind \in {"Moving", "Resizing"}
       /\ op.window \in DOMAIN Nodes
       /\ op.original_geometry = Rectangle(560, 240, 800, 600)
       /\ ~Nodes[op.window].is_floating
       /\ Nodes[op.window].floating_original_geometry = << >>
       /\ Nodes[op.window].container_type = "Window"

(***************************************************************************)
(* C20                                                                     *)
(***************************************************************************)
\* C20: toggle_floating on a tiled window with screen rectangle S sets
\* is_floating, records the previous geometry, centres the window at 800x600
\* in S ((560, 240, 800, 600) on the 1920x1080 screen of the shortcut
\* handler), puts its id on top of the z-order list, and leaves its parent
\* and its place among its parent's children as they were.
C20_ToggleCentresTiledWindow ==
    [][FloatStep =>
          LET w == Focused
          IN /\ \A S \in Screens :
                    LET r == toggle_floating(floating_manager, window_tree, w, S)
                        node == r.t.nodes[w]
                        stack == r.f.stack
                    IN /\ r.ok
                       /\ node.is_floating
                       /\ node.floating_original_geometry = <<Nodes[w].geometry>>
                       /\ node.geometry =
                              [x |-> S.x + (S.width - 800) \div 2,
                               y |-> S.y + (S.height - 600) \div 2,
                               width |-> 800, height |-> 600]
                       /\ stack = floating_manager.stack \o <<w>>
                       /\ node.parent = Nodes[w].parent
                       /\ \A p \in DOMAIN Nodes :
                              r.t.nodes[p].children = Nodes[p].children
             /\ Toggled.t.nodes[w].geometry =
                    [x |-> 560, y |-> 240, width |-> 800, height |-> 600]
             /\ Nodes'[w].is_floating
             /\ Nodes'[w].floating_original_geometry = <<Nodes[w].geometry>>
             /\ floating_manager'.stack = floating_manager.stack \o <<w>>
             /\ Nodes'[w].parent = Nodes[w].parent
             /\ \A p \in DOMAIN Nodes : Nodes'[p].children = Nodes[p].children]_vars

\* C20 witness: a floating window centred at 800x600 on the 1920x1080 screen,
\* on top of a z-order list that holds another window below it, with its
\* earlier geometry recorded and still a child of its parent.
C20_Witness ==
    \E w \in DOMAIN Nodes :
        /\ Nodes[w].container_type = "Window"
        /\ Nodes[w].is_floating
        /\ Nodes[w].geometry = Rectangle(560, 240, 800, 600)
        /\ Nodes[w].floating_original_geometry # << >>
        /\ Len(floating_manager.stack) >= 2
        /\ floating_manager.stack[Len(floating_manager.stack)] = w
        /\ Nodes[w].parent \in DOMAIN Nodes
        /\ SeqContains(Nodes[Nodes[w].parent].children, w)

(***************************************************************************)
(* Vocabulary of the grab properties                                       *)
(***************************************************************************)
\* The live nodes that float.
Floating == {w \in DOMAIN Nodes : Nodes[w].is_floating}

\* The z-order list, bottom to top, and the grab state.
Stack == floating_manager.stack
Grab == floating_manager.operation

\* s with e taken out and put at the end.
MovedToEnd(s, e) == SelectSeq(s, LAMBDA v : v # e) \o <<e>>

(***************************************************************************)
(* C21                                                                     *)
(***************************************************************************)
\* C21: start_move and start_resize on a floating window w, whatever grab is
\* active, make the grab Moving / Resizing on w with the cursor as anchor,
\* w's geometry of that moment as origin (and the given edge), and move w to
\* the end of the z-order list.
C21_StartGrabRecordsAnchorAndRaises ==
    \A w \in Floating : \A p \in CursorPoints :
        /\ LET r == start_move(floating_manager, window_tree, w, p[1], p[2])
           IN /\ r.ok
              /\ r.f.operation.kind = "Moving"
              /\ r.f.operation.window = w
              /\ r.f.operation.start_x = p[1]
              /\ r.f.operation.start_y = p[2]
              /\ r.f.operation.original_geometry = Nodes[w].geometry
              /\ r.f.stack = MovedToEnd(Stack, w)
        /\ \A edge \in ResizeEdges :
               LET r == start_resize(floating_manager, window_tree, w, p[1], p[2], edge)
               IN /\ r.ok
                  /\ r.f.operation.kind = "Resizing"
                  /\ r.f.operation.window = w
                  /\ r.f.operation.start_x = p[1]
                  /\ r.f.operation.start_y = p[2]
                  /\ r.f.operation.original_geometry = Nodes[w].geometry
                  /\ r.f.operation.edge = edge
                  /\ r.f.stack = MovedToEnd(Stack, w)

\* C21 witness: a grab is active on one floating window, started by a press
\* at one of the cursor points, while another floating window lies below it
\* in the z-order list: starting a grab on that one replaces the grab and
\* reorders the list.
C21_Witness ==
    /\ Grab.kind \in {"Moving", "Resizing"}
    /\ <<Grab.start_x, Grab.start_y>> \in CursorPoints
    /\ Grab.window \in Floating
    /\ Stack[Len(Stack)] = Grab.window
    /\ \E w \in Floating : w # Grab.window /\ SeqContains(Stack, w)

(***************************************************************************)
(* C22                                                                     *)
(***************************************************************************)
\* A pointer motion to (x, y) while a grab of the given kind is active on a
\* live node.
GrabMotion(kind, x, y) ==
    PointerMotion(x, y) /\ Grab.kind = kind /\ Grab.window \in DOMAIN Nodes

\* C22: during a Moving grab every update puts the grabbed window at
\* origin + (cursor - anchor) for the cursor of that update alone, and
\* leaves its width and height as they were.
C22_MoveFollowsLatestCursor ==
    [][\A p \in CursorPoints :
          GrabMotion("Moving", p[1], p[2]) =>
              LET w == Grab.window
                  origin == Grab.original_geometry
              IN /\ Nodes'[w].geometry.x = origin.x + (p[1] - Grab.start_x)
                 /\ Nodes'[w].geometry.y = origin.y + (p[2] - Grab.start_y)
                 /\ Nodes'[w].geometry.width = Nodes[w].geometry.width
                 /\ Nodes'[w].geometry.height = Nodes[w].geometry.height]_vars

\* C22 witness: a Moving grab whose window has been dragged: it stands away
\* from the grab's origin by the distance of a cursor point from the anchor,
\* with the origin's size.
C22_Witness ==
    /\ Grab.kind = "Moving"
    /\ Grab.window \in DOMAIN Nodes
    /\ \E p \in CursorPoints :
           /\ p # <<Grab.start_x, Grab.start_y>>
           /\ Nodes[Grab.window].geometry =
                  [x |-> Grab.original_geometry.x + (p[1] - Grab.start_x),
                   y |-> Grab.original_geometry.y + (p[2] - Grab.start_y),
                   width |-> Grab.original_geometry.width,
                   height |-> Grab.original_geometry.height]

(***************************************************************************)
(* C23                                                                     *)
(***************************************************************************)
\* max(u + d, m) for a u32 u, a small i32 d and a small positive m, as a u32
\* in the encoding of this module: a u of 2^31 or more stays above m.
U32MaxPlus(u, d, m) ==
    IF U32Wrapped(u) THEN u + d
    ELSE IF u + d >= m THEN u + d ELSE m

\* C23: during a Resizing grab with edge BottomRight, an update with the
\* cursor displaced by (dx, dy) from the anchor keeps x and y of the origin
\* and sets width = max(origin.width + dx, 200), height =
\* max(origin.height + dy, 100).
C23_BottomRightResize ==
    [][\A p \in CursorPoints :
          GrabMotion("Resizing", p[1], p[2]) /\ Grab.edge = "BottomRight" =>
              LET origin == Grab.original_geometry
                  dx == p[1] - Grab.start_x
                  dy == p[2] - Grab.start_y
              IN Nodes'[Grab.window].geometry =
                     [x |-> origin.x, y |-> origin.y,
                      width |-> U32MaxPlus(origin.width, dx, 200),
                      height |-> U32MaxPlus(origin.height, dy, 100)]]_vars

\* C23 witness: a BottomRight grab on the centred 800x600 window, anchored
\* near its corner and dragged to the far point, has shrunk it to 200x100 in
\* place.
C23_Witness ==
    /\ Grab.kind = "Resizing"
    /\ Grab.edge = "BottomRight"
    /\ Grab.original_geometry = Rectangle(560, 240, 800, 600)
    /\ Grab.window \in DOMAIN Nodes
    /\ Nodes[Grab.window].geometry = Rectangle(560, 240, 200, 100)

(***************************************************************************)
(* C24                                                                     *)
(***************************************************************************)
HasLeft(edge) == edge \in {"Left", "TopLeft", "BottomLeft"}
HasTop(edge) == edge \in {"Top", "TopLeft", "TopRight"}

\* The side of g opposite to the dragged edge is where the origin has it.
OppositeSideKept(g, origin, edge) ==
    /\ IF HasLeft(edge)
       THEN g.x + g.width = origin.x + origin.width
       ELSE g.x = origin.x
    /\ IF HasTop(edge)
       THEN g.y + g.height = origin.y + origin.height
       ELSE g.y = origin.y

\* The geometry update_operation gives the grabbed window for the cursor,
\* had the grab been started with the given edge.
ResizedBy(edge, cursor) ==
    update_operation([floating_manager EXCEPT !.operation.edge = edge],
                     window_tree, cursor[1], cursor[2]).nodes[Grab.window].geometry

\* C24: during a Resizing grab, for each of the eight edges and every cursor
\* position, the side opposite to the dragged one stays where it was at grab
\* time, also when the size is clamped: so it is after every motion of a
\* grab, for the edge the grab has and for each edge it could have had.
C24_ResizeKeepsOppositeSide ==
    [][\A p \in CursorPoints :
          GrabMotion("Resizing", p[1], p[2]) =>
              /\ OppositeSideKept(Nodes'[Grab.window].geometry,
                                  Grab.original_geometry, Grab.edge)
              /\ \A edge \in ResizeEdges :
                     OppositeSideKept(ResizedBy(edge, p),
                                      Grab.original_geometry, edge)]_vars

\* C24 witness: a TopLeft grab on the centred 800x600 window, dragged towards
\* the bottom right until both sizes are clamped: the window is 200x100 and
\* its bottom right corner is still at (1360, 840).
C24_Witness ==
    /\ Grab.kind = "Resizing"
    /\ Grab.edge = "TopLeft"
    /\ Grab.original_geometry = Rectangle(560, 240, 800, 600)
    /\ Grab.window \in DOMAIN Nodes
    /\ Nodes[Grab.window].geometry = Rectangle(1160, 740, 200, 100)

(***************************************************************************)
(* C25                                                                     *)
(***************************************************************************)
\* C25: after every update_operation during a Resizing grab, whichever the
\* edge and whatever the geometry at grab time, the grabbed window is at
\* least min_width wide and min_height high.
C25_ResizeKeepsMinimumSize ==
    [][\A p \in CursorPoints :
          GrabMotion("Resizing", p[1], p[2]) =>
              LET g == Nodes'[Grab.window].geometry
              IN /\ ~U32Wrapped(g.width) /\ g.width >= 200
                 /\ ~U32Wrapped(g.height) /\ g.height >= 100]_vars

(***************************************************************************)
(* C26                                                                     *)
(***************************************************************************)
\* C26: finish_operation leaves no grab, and when the window of the active
\* Moving / Resizing grab is destroyed by the toplevel-closed path the grab
\* state is None afterwards, so that no later pointer motion is read against
\* the destroyed window.
C26_GrabEndsWithItsWindow ==
    [][/\ PointerButtonReleased => Grab'.kind = "None"
       /\ \A w \in WindowIds :
              (/\ ToplevelClosed(w)
               /\ Grab.kind # "None"
               /\ Grab.window = w
               /\ w \notin DOMAIN Nodes') => Grab'.kind = "None"]_vars

(***************************************************************************)
(* C27                                                                     *)
(***************************************************************************)
\* The ids handed out so far.
IssuedIds == 1..(window_tree.next - 1)

\* s without e, order kept.
Without(s, e) == SelectSeq(s, LAMBDA v : v # e)

\* C27: raise_window(w) leaves w as the last element of the z-order list,
\* listed once, with the other ids in the order they had; it puts w in when
\* it was absent; and raising twice gives what raising once gives.
C27_RaiseMovesToTop ==
    \A w \in IssuedIds :
        LET once == raise_window(floating_manager, w)
            twice == raise_window(once, w)
        IN /\ Len(once.stack) >= 1
           /\ once.stack[Len(once.stack)] = w
           /\ Occurrences(once.stack, w) = 1
           /\ Without(once.stack, w) = Without(Stack, w)
           /\ once.operation = Grab
           /\ twice = once

\* C27 witness: two floating windows, the one that was created later below
\* the one created first, which holds the grab and the focus: a press on it
\* raised it over the other.
C27_Witness ==
    /\ Len(Stack) = 2
    /\ Stack[1] > Stack[2]
    /\ {Stack[1], Stack[2]} \subseteq Floating
    /\ Grab.kind # "None"
    /\ Grab.window = Stack[2]
    /\ Focused = Stack[2]
    /\ RemovedIds = {}

(***************************************************************************)
(* C28                                                                     *)
(***************************************************************************)
\* The point lies in the rectangle [x, x + width) x [y, y + height), width
\* and height being u32 values: one of 2^31 or more reaches beyond every i32
\* coordinate.
Covers(g, point) ==
    /\ point[1] >= g.x
    /\ U32Wrapped(g.width) \/ point[1] < g.x + g.width
    /\ point[2] >= g.y
    /\ U32Wrapped(g.height) \/ point[2] < g.y + g.height

\* The places of the z-order list that hold a live floating node covering the
\* point.
HitsIn(stack, point) ==
    {i \in 1..Len(stack) :
        /\ stack[i] \in Floating
        /\ Covers(Nodes[stack[i]].geometry, point)}

\* What find_window_at owes for the list and the point.
TopmostHit(stack, point) ==
    IF HitsIn(stack, point) = {} THEN NoNode
    ELSE stack[CHOOSE i \in HitsIn(stack, point) :
                   \A j \in HitsIn(stack, point) : j <= i]

\* C28: find_window_at(x, y) returns the id latest in the z-order list among
\* the live floating nodes whose geometry contains (x, y), none when there is
\* no such node, never a removed or non-floating id; and right after
\* raise_window(w) it returns w for every point w's geometry covers.
C28_FindTopmostFloatingAtPoint ==
    \A p \in CursorPoints :
        /\ find_window_at(floating_manager, window_tree, p[1], p[2])
               = TopmostHit(Stack, p)
        /\ find_window_at(floating_manager, window_tree, p[1], p[2])
               \in Floating \cup {NoNode}
        /\ \A w \in Floating :
               Covers(Nodes[w].geometry, p) =>
                   find_window_at(raise_window(floating_manager, w),
                                  window_tree, p[1], p[2]) = w

(***************************************************************************)
(* C29                                                                     *)
(***************************************************************************)
\* Node ids a command can be handed: the Output, the first workspace, every
\* id issued since construction, removed ones included, and one that was never
\* issued.
AnyIds ==
    {workspace_manager.output_id, workspace_manager.workspaces[1]}
        \cup (FirstFree..window_tree.next)

\* Workspace numbers a command can be handed: the first, the last, and the
\* numbers just outside the range.
AnyWorkspaceNumbers == {0, 1, MAX_WORKSPACES, MAX_WORKSPACES + 1}

\* The tree with the focus put on the Output node, which has no parent.
FocusOnRoot == set_focused(window_tree, workspace_manager.output_id)

\* C29: a command that reports failure leaves the whole state as it was:
\* split_focused (no focus, or a focused node without parent),
\* move_window_to_workspace (number out of range, window without parent),
\* remove_window (no parent), toggle_floating (missing id), start_move and
\* start_resize (missing or non-floating window), and insert_window return
\* the tree and the floating manager they were given whenever they return an
\* error (the workspace manager is not theirs to change).
C29_FailureChangesNothing ==
    /\ \A orient \in Orientations :
           /\ LET r == split_focused(window_tree, orient)
              IN ~r.ok => r.t = window_tree
           /\ LET r == split_focused(FocusOnRoot, orient)
              IN ~r.ok /\ r.t = FocusOnRoot
    /\ LET r == insert_window(window_tree, active_workspace(workspace_manager))
       IN ~r.ok => r.t = window_tree
    /\ \A w \in AnyIds :
           /\ \A n \in AnyWorkspaceNumbers :
                  LET r == move_window_to_workspace(workspace_manager,
                                                    window_tree, w, n)
                  IN /\ ~r.ok => r.t = window_tree
                     /\ n \notin 1..MAX_WORKSPACES => ~r.ok
           /\ LET r == remove_window(window_tree, w)
              IN ~r.ok => r.t = window_tree
           /\ LET r == toggle_floating(floating_manager, window_tree, w, KeyScreen)
              IN /\ ~r.ok => r.t = window_tree /\ r.f = floating_manager
                 /\ w \notin DOMAIN Nodes => ~r.ok
           /\ w \notin Floating =>
                  /\ LET r == start_move(floating_manager, window_tree, w, 600, 250)
                     IN ~r.ok /\ r.f = floating_manager
                  /\ LET r == start_resize(floating_manager, window_tree, w,
                                           600, 250, "BottomRight")
                     IN ~r.ok /\ r.f = floating_manager

\* C29 witness: a state with something to lose and every listed failure on
\* offer: a grab is active, the z-order list is not empty, an id has been
\* removed, and a live window does not float.
C29_Witness ==
    /\ Grab.kind # "None"
    /\ Stack # << >>
    /\ RemovedIds # {}
    /\ \E w \in WindowIds : ~Nodes[w].is_floating
    /\ Focused \in DOMAIN Nodes
    /\ ~move_window_to_workspace(workspace_manager, window_tree, Focused, 0).ok

(***************************************************************************)
(* C30                                                                     *)
(***************************************************************************)
\* Where the claim puts a new window: beside the focused window, inside the
\* focused container, or in the workspace ws when nothing is focused.
ClaimedInsertTarget(ws) ==
    IF Focused = NoNode THEN ws
    ELSE IF Nodes[Focused].container_type = "Window" THEN Nodes[Focused].parent
    ELSE Focused

\* A new toplevel whose insert_window returned Ok, in a state the claim
\* speaks of: nothing focused, or a live focused node that is a container or
\* a window with a parent.
InsertStep ==
    /\ NewToplevel
    /\ insert_window(window_tree, active_workspace(workspace_manager)).ok
    /\ \/ Focused = NoNode
       \/ /\ Focused \in DOMAIN Nodes
          /\ Nodes[Focused].container_type = "Window" => HasParent

C31_RemoveWindowMovesFocus ==
    [][\A w \in WindowIds :
          ToplevelClosed(w) /\ Nodes[w].parent \in DOMAIN Nodes =>
              LET p == Nodes[w].parent
                  left == Without(Nodes[p].children, w)
              IN /\ DOMAIN Nodes' = DOMAIN Nodes \ {w}
                 /\ Nodes'[p].children = left
                 /\ \A q \in DOMAIN Nodes' : ~SeqContains(Nodes'[q].children, w)
                 /\ window_tree'.focused =
                        IF Focused # w THEN Focused
                        ELSE IF left # << >> THEN left[1]
                        ELSE p
                 /\ Nodes'[window_tree'.focused].focused]_vars

\* C31 witness: the window created last is gone and the focus is on an older
\* window that is the first child of its parent, with another window after
\* it: the closed window handed the focus over, or was closed unfocused.
C31_Witness ==
    /\ RemovedIds = {window_tree.next - 1}
    /\ Focused \in WindowIds
    /\ Nodes[Focused].parent \in DOMAIN Nodes
    /\ Len(Nodes[Nodes[Focused].parent].children) >= 2
    /\ Nodes[Nodes[Focused].parent].children[1] = Focused

(***************************************************************************)
(* C32                                                                     *)
(***************************************************************************)
\* The ids add_child must refuse as parent: live nodes of kind Window or
\* Floating, and ids that are not in the arena.
ChildlessIds ==
    {p \in AnyIds :
        p \in DOMAIN Nodes => Nodes[p].container_type \in {"Window", "Floating"}}

\* C32: no node of kind Window or Floating has children in any reachable
\* state; add_child with such a node, or an id that is not in the arena, as
\* parent returns an error and changes nothing; and insert_window never makes
\* a Window the parent of the new window.
C32_WindowsStayLeaves ==
    /\ \A n \in DOMAIN Nodes :
           Nodes[n].container_type \in {"Window", "Floating"} =>
               Nodes[n].children = << >>
    /\ \A p \in ChildlessIds : \A c \in AnyIds :
           LET r == add_child(window_tree, p, c)
           IN ~r.ok /\ r.t = window_tree
    /\ LET r == insert_window(window_tree, active_workspace(workspace_manager))
       IN r.ok =>
              /\ r.t.nodes[r.id].parent \in DOMAIN Nodes
              /\ Nodes[r.t.nodes[r.id].parent].container_type
                     \notin {"Window", "Floating"}

\* C32 witness: a window has the focus, so that the next insert_window has to
\* pass it by, beside another live window and a removed id that add_child
\* must refuse.
C32_Witness ==
    /\ Focused \in WindowIds
    /\ Cardinality(WindowIds) >= 2
    /\ RemovedIds # {}
    /\ Nodes[Focused].parent \in DOMAIN Nodes
    /\ Nodes[Nodes[Focused].parent].container_type = "Split"

(***************************************************************************)
(* C33                                                                     *)
(***************************************************************************)
\* C33: remove_child(p, c) with c not among p's children changes nothing in
\* the arena: p's children are the same and c keeps its parent link, also
\* when c is a child of another node; and removing twice gives what removing
\* once gives.
C33_RemoveAbsentChildIsNoOp ==
    \A p \in AnyIds : \A c \in AnyIds :
        LET once == remove_child(window_tree, p, c)
        IN /\ remove_child(once, p, c) = once
           /\ (p \in DOMAIN Nodes => ~SeqContains(Nodes[p].children, c)) =>
                  once = window_tree

(***************************************************************************)
(* C34                                                                     *)
(***************************************************************************)
\* C34: in every state the compositor reaches, the z-order list holds exactly
\* the live floating nodes, each once: no closed window, no tiled window, and
\* every floating one.
C34_StackIsTheFloatingWindows ==
    /\ {Stack[i] : i \in 1..Len(Stack)} = Floating
    /\ \A i, j \in 1..Len(Stack) : Stack[i] = Stack[j] => i = j

(***************************************************************************)
(* C35                                                                     *)
(***************************************************************************)
\* C35: whenever the grab state is Moving or Resizing the grabbed window is a
\* live floating node, toggling it back to tiled included, so that no pointer
\* motion writes the geometry of a node that does not float.
C35_GrabbedWindowFloats ==
    [][/\ Grab'.kind # "None" =>
              /\ Grab'.window \in DOMAIN Nodes'
              /\ Nodes'[Grab'.window].is_floating
       /\ \A p \in CursorPoints :
              PointerMotion(p[1], p[2]) =>
                  \A n \in DOMAIN Nodes :
                      ~Nodes[n].is_floating =>
                          Nodes'[n].geometry = Nodes[n].geometry]_vars

(***************************************************************************)
(* C36                                                                     *)
(***************************************************************************)
\* Following parent links from id for at most fuel steps comes to the node
\* sought.
RECURSIVE ReachesUpward(_, _, _)
ReachesUpward(id, sought, fuel) ==
    IF fuel = 0 \/ id \notin DOMAIN Nodes THEN FALSE
    ELSE IF Nodes[id].parent = sought THEN TRUE
    ELSE ReachesUpward(Nodes[id].parent, sought, fuel - 1)

IsOwnAncestor(n) == ReachesUpward(n, n, Cardinality(DOMAIN Nodes))

\* C36: after any sequence of commands no node is its own ancestor, and so
\* no layout pass, visible_windows, find_workspace or navigate_focus call
\* runs without end.
C36_ParentLinksFormForest ==
    /\ \A n \in DOMAIN Nodes : ~IsOwnAncestor(n)
    /\ ~aborted
    /\ visible_windows(workspace_manager, window_tree) # <<Diverges>>
    /\ \A n \in DOMAIN Nodes : find_workspace(window_tree, n) # Diverges
    /\ \A direction \in Directions :
           navigate_focus(window_tree, direction).ret # Diverges

(***************************************************************************)
(* C37                                                                     *)
(***************************************************************************)
\* C37: a window successfully inserted for the active workspace lies below
\* that workspace (find_workspace of the new window is the active workspace
\* root) and is listed by visible_windows, whatever node held the focus.
C37_NewWindowLandsInActiveWorkspace ==
    [][/\ NewToplevel
       /\ insert_window(window_tree, active_workspace(workspace_manager)).ok
       => LET new == window_tree.next
          IN /\ find_workspace(window_tree', new) =
                    active_workspace(workspace_manager')
             /\ SeqContains(visible_windows(workspace_manager', window_tree'),
                            new)]_vars

(***************************************************************************)
(* C38                                                                     *)
(***************************************************************************)
\* C38: every button release leaves no grab behind, and pointer motion
\* while no grab is in progress changes no node's geometry.
C38_ReleaseEndsGrabAndIdleMotionIsInert ==
    [][/\ PointerButtonReleased =>
              /\ Grab' = [kind |-> "None", window |-> NoNode,
                          start_x |-> Grab'.start_x, start_y |-> Grab'.start_y,
                          original_geometry |-> Grab'.original_geometry,
                          edge |-> Grab'.edge]
              /\ Grab'.kind = "None"
       /\ \A p \in CursorPoints :
              PointerMotion(p[1], p[2]) /\ Grab.kind = "None" =>
                  /\ DOMAIN Nodes' = DOMAIN Nodes
                  /\ \A n \in DOMAIN Nodes :
                         Nodes'[n].geometry = Nodes[n].geometry]_vars

\* No grab is in progress although a floating window of full screen size
\* lies away from the screen's origin, where only a drag between two cursor
\* points can have put it: a grab moved it and a release ended that grab.
C38_Witness ==
    /\ Grab.kind = "None"
    /\ \E w \in Floating : \E p \in CursorPoints : \E q \in CursorPoints :
           /\ p[1] # q[1]
           /\ Nodes[w].geometry =
                  Rectangle(q[1] - p[1], q[2] - p[2], 1920, 1080)

(***************************************************************************)
(* C39                                                                     *)
(***************************************************************************)
\* The tree a terminating layout pass over the active workspace leaves.
Laid(t, screen_geometry) ==
    layout_active_workspace(workspace_manager, t, screen_geometry).t

LayoutTerminates(screen_geometry) ==
    ~layout_active_workspace(workspace_manager, window_tree,
                             screen_geometry).overflow

\* node with its geometry field blanked, to compare every other field.
ButGeometry(node) == [node EXCEPT !.geometry = Rectangle(0, 0, 0, 0)]

\* n belongs to the active workspace: the nearest Workspace node at or above
\* n is the active workspace's root.
BelongsToActiveWorkspace(n) ==
    find_workspace(window_tree, n) = active_workspace(workspace_manager)

\* C39: a layout pass over the active workspace changes nothing but geometry
\* fields, and only of nodes of the active workspace: links, layout modes,
\* focus, floating flags and every field of a node that belongs to another
\* workspace stay as they were; a second pass with the same rectangle gives
\* the geometries of the first.
C39_LayoutPassWritesOnlyActiveGeometry ==
    \A screen_geometry \in Screens :
        LayoutTerminates(screen_geometry) =>
            LET once == Laid(window_tree, screen_geometry)
            IN /\ once.focused = window_tree.focused
               /\ once.next = window_tree.next
               /\ DOMAIN once.nodes = DOMAIN Nodes
               /\ \A n \in DOMAIN Nodes :
                      /\ ButGeometry(once.nodes[n]) = ButGeometry(Nodes[n])
                      /\ ~BelongsToActiveWorkspace(n) =>
                             once.nodes[n] = Nodes[n]
               /\ Laid(once, screen_geometry) = once

(***************************************************************************)
(* C40                                                                     *)
(***************************************************************************)
\* Every node below the active workspace root is laid out as a split.
OnlySplits ==
    \A n \in Subtree(Nodes, active_workspace(workspace_manager)) :
        Nodes[n].layout \in {"SplitH", "SplitV"}

\* In the tree nodes, laid out, every container below the active workspace
\* root has room left for its children once the gaps are taken away.
UsableSpacePositive(nodes) ==
    \A n \in Subtree(nodes, active_workspace(workspace_manager)) :
        LET k == Len(nodes[n].children)
            total == IF nodes[n].layout = "SplitH"
                     THEN nodes[n].geometry.width
                     ELSE nodes[n].geometry.height
        IN k > 0 => ~U32Wrapped(total) /\ total - (k - 1) * 4 > 0

\* C40: on a tree of split containers only and a rectangle that leaves
\* every container positive usable space, SplitLayout gives every node the
\* geometry calculate_layout gives it.
C40_SplitLayoutsAgree ==
    \A screen_geometry \in Screens :
        LET ws == active_workspace(workspace_manager)
            by_tree == calculate_layout(window_tree, ws, screen_geometry)
            placed == [Nodes EXCEPT ![ws].geometry = screen_geometry]
            by_split == SplitLayout_layout_container(placed, ws, screen_geometry)
        IN (/\ OnlySplits
            /\ ~by_tree.overflow
            /\ ~by_split.overflow
            /\ UsableSpacePositive(by_tree.t.nodes)) =>
               \A n \in DOMAIN Nodes :
                   by_split.nodes[n].geometry = by_tree.t.nodes[n].geometry

====
